---- MODULE Spec2Model ----
(***************************************************************************)
(* Model of the YAML schema validator: the four-phase pipeline of          *)
(* validate_yaml_schema (parse, load, core rules, profile rules), the      *)
(* rule registry, the profile rules and the path-to-line side table.       *)
(*                                                                         *)
(* Representation.                                                         *)
(*  - A text is a sequence over {"t", "n", "c"}: "t" is a tab,             *)
(*    "n" a line feed, "c" a run of other characters.  What the YAML       *)
(*    parser makes of a tab-free text is not computed from the text: it    *)
(*    is any outcome of YamlOutcomes (an over-approximation), except that  *)
(*    a text with no "c" decodes to nothing.                               *)
(*  - A parsed document (ruamel's CommentedMap tree) is the list of its    *)
(*    mapping keys in document (pre-)order; an entry holds the key path,   *)
(*    the kind of the value under the key, whether the key is a string,    *)
(*    and the source line of the key.  Sequences hold scalars only.        *)
(*  - An Optional[int] is a sequence of length at most one: <<>> is None.  *)
(*  - A dict is a function whose DOMAIN is its key set.                    *)
(***************************************************************************)
EXTENDS Integers, Sequences, FiniteSets, TLC

VARIABLES
    pc,            \* position of the validate_yaml_schema call
    yaml_text,     \* argument: the text
    profile,       \* argument: the profile name, "" for None
    fail_fast,     \* argument
    store,         \* the profile store: names whose config file exists
    parse_result,  \* ParseResult of phase 1
    load_result,   \* (model, errors) of phase 2, or the exception it raised
    registry,      \* the RuleRegistry of the call
    errors,        \* local accumulator
    warnings,      \* local accumulator
    result,        \* the ValidationResult returned
    raised,        \* the exception that left the call, "" for none
    calls,         \* the calls made so far, in order (observation)
    document,      \* the tree yaml.load returned
    rule,          \* a rule instance under test
    path,          \* a path under test
    out,           \* the value returned by the operation under test
    issue_list,    \* the issues given to the fixer
    heap,          \* the RuleRegistry objects of the process, by reference
    profile_config, \* the ProfileConfig a rule under test is built from
    indent_size,   \* the indent unit given to the indentation fixer
    ErrorCodes     \* the class ErrorCodes that the emitting module imports

vars == <<pc, yaml_text, profile, fail_fast, store, parse_result, load_result,
          registry, errors, warnings, result, raised, calls, document, rule, path, out,
          issue_list, heap, profile_config, indent_size, ErrorCodes>>

(***************************************************************************)
(* Bounds.                                                                 *)
(***************************************************************************)
MaxLen == 2        \* longest text

MaxRules == 3      \* most rules a registry is given

MaxKeys == 3       \* most keys of a document given to the line map

MaxText == 3       \* longest text given to the fixer

MaxIndent == 4     \* most leading spaces of a line given to the indentation fixer

MaxUnit == 4       \* largest indent unit
MaxEmitted == 2    \* most issues emitted in one run of the code tables

(***************************************************************************)
(* Generic helpers.                                                        *)
(***************************************************************************)
None == <<>>

Some(x) == <<x>>

RECURSIVE Concat(_)
Concat(ss) == IF ss = <<>> THEN <<>> ELSE Head(ss) \o Concat(Tail(ss))

Range(s) == {s[i] : i \in 1..Len(s)}

IsPrefix(p, q) == Len(p) <= Len(q) /\ SubSeq(q, 1, Len(p)) = p

Texts(n) == UNION {[1..k -> {"t", "n", "c"}] : k \in 0..n}

(***************************************************************************)
(* Error codes and issues (yaml_validator/models/validation_result.py).    *)
(***************************************************************************)
YAML_PARSE_ERROR == "GXVAL001"
YAML_INDENT_ERROR == "GXVAL002"
YAML_TAB_ERROR == "GXVAL003"
YAML_MAPPING_ERROR == "GXVAL004"
YAML_EMPTY_ERROR == "GXVAL005"
PYDANTIC_VALIDATION_ERROR == "GXVAL101"
STRUCTURE_ERROR == "GXVAL104"
GROUP_PROMPT_NO_INSTRUCTIONS == "GXVAL201"
FIELD_NO_PROMPT == "GXVAL202"
FIELD_NO_IDENTIFIERS == "GXVAL203"
FIELD_EMPTY_IDENTIFIERS == "GXVAL204"
FIELD_NO_TYPE == "GXVAL205"
GROUP_PROMPT_IGNORED_ATTRS == "GXVAL301"
FIELD_REQUIRED_IGNORED == "GXVAL302"
PROFILE_INVALID_TOP_LEVEL_KEY == "GXVAL401"
PROFILE_MISSING_REQUIRED_KEY == "GXVAL402"
PROFILE_MISSING_REQUIRED_FIELD == "GXVAL403"
PROFILE_INVALID_FIELDS_TYPE == "GXVAL404"
INTERNAL_FAILURE == "GXVAL000"

\* One constant of a class ErrorCodes: its code and the section of the class
\* that declares it.
Constant(code, section) == [code |-> code, section |-> section]

Sections ==
    {"parse", "load", "core errors", "core warnings", "profile errors",
     "profile warnings"}

\* class ErrorCodes of yaml_validator/models/validation_result.py
validation_result ==
    {Constant(YAML_PARSE_ERROR, "parse"), Constant(YAML_INDENT_ERROR, "parse"),
     Constant(YAML_TAB_ERROR, "parse"), Constant(YAML_MAPPING_ERROR, "parse"),
     Constant(YAML_EMPTY_ERROR, "parse"),
     Constant(PYDANTIC_VALIDATION_ERROR, "load"), Constant("GXVAL102", "load"),
     Constant("GXVAL103", "load"), Constant(STRUCTURE_ERROR, "load"),
     Constant(GROUP_PROMPT_NO_INSTRUCTIONS, "core errors"),
     Constant(FIELD_NO_PROMPT, "core errors"),
     Constant(FIELD_NO_IDENTIFIERS, "core errors"),
     Constant(FIELD_EMPTY_IDENTIFIERS, "core errors"),
     Constant(FIELD_NO_TYPE, "core errors"),
     Constant(GROUP_PROMPT_IGNORED_ATTRS, "core warnings"),
     Constant(FIELD_REQUIRED_IGNORED, "core warnings"),
     Constant(PROFILE_INVALID_TOP_LEVEL_KEY, "profile errors"),
     Constant(PROFILE_MISSING_REQUIRED_KEY, "profile errors"),
     Constant(PROFILE_MISSING_REQUIRED_FIELD, "profile errors"),
     Constant(PROFILE_INVALID_FIELDS_TYPE, "profile errors"),
     Constant("GXVAL501", "profile warnings")}

\* class ErrorCodes of src/core/models.py, the one that validator.py,
\* rules/base.py, rules/profile_rules/statement_only.py and
\* fixer/auto_fixer.py import
core_models ==
    {Constant("GXVAL001", "parse"), Constant("GXVAL002", "parse"),
     Constant("GXVAL003", "parse"), Constant("GXVAL004", "parse"),
     Constant("GXVAL010", "load"), Constant("GXVAL011", "load"),
     Constant("GXVAL012", "load"), Constant("GXVAL013", "load"),
     Constant("GXVAL101", "core errors"), Constant("GXVAL103", "core errors"),
     Constant("GXVAL104", "core errors"), Constant("GXVAL105", "core errors"),
     Constant("GXVAL107", "core errors"),
     Constant("GXVAL102", "core warnings"), Constant("GXVAL106", "core warnings"),
     Constant("GXVAL108", "core warnings"),
     Constant("GXVAL201", "profile errors"), Constant("GXVAL202", "profile errors"),
     Constant("GXVAL203", "profile errors"), Constant("GXVAL204", "profile errors"),
     Constant("GXVAL250", "profile warnings")}

\* int(code[5:]): the number written after "GXVAL"
code_num(code) ==
    CASE code = "GXVAL000" -> 0
      [] code = "GXVAL001" -> 1
      [] code = "GXVAL002" -> 2
      [] code = "GXVAL003" -> 3
      [] code = "GXVAL004" -> 4
      [] code = "GXVAL005" -> 5
      [] code = "GXVAL010" -> 10
      [] code = "GXVAL011" -> 11
      [] code = "GXVAL012" -> 12
      [] code = "GXVAL013" -> 13
      [] code = "GXVAL101" -> 101
      [] code = "GXVAL102" -> 102
      [] code = "GXVAL103" -> 103
      [] code = "GXVAL104" -> 104
      [] code = "GXVAL105" -> 105
      [] code = "GXVAL106" -> 106
      [] code = "GXVAL107" -> 107
      [] code = "GXVAL108" -> 108
      [] code = "GXVAL201" -> 201
      [] code = "GXVAL202" -> 202
      [] code = "GXVAL203" -> 203
      [] code = "GXVAL204" -> 204
      [] code = "GXVAL205" -> 205
      [] code = "GXVAL250" -> 250
      [] code = "GXVAL301" -> 301
      [] code = "GXVAL302" -> 302
      [] code = "GXVAL401" -> 401
      [] code = "GXVAL402" -> 402
      [] code = "GXVAL403" -> 403
      [] code = "GXVAL404" -> 404
      [] code = "GXVAL501" -> 501
      [] code = "GXVAL900" -> 900

\* print_rules_list: the range a code number lies in, in the order parse, load,
\* core errors, core warnings, profile errors, profile warnings
RangeOf(n) ==
    IF n < 100 THEN "parse"
    ELSE IF n < 200 THEN "load"
    ELSE IF n < 300 THEN "core errors"
    ELSE IF n < 400 THEN "core warnings"
    ELSE IF n < 500 THEN "profile errors"
    ELSE "profile warnings"

\* print_rules_list: the severity it derives from the code range
SeverityOfRange(n) ==
    IF RangeOf(n) \in {"core warnings", "profile warnings"} THEN "warning" ELSE "error"

ValidationIssue(severity, code, message, p, line, suggestion) ==
    [severity |-> severity, code |-> code, message |-> message, path |-> p,
     line |-> line, suggestion |-> suggestion]

create_error(code, message, p, line, suggestion) ==
    ValidationIssue("error", code, message, p, line, suggestion)

CreateWarningNoPath(code, message, p, line, suggestion) ==
    ValidationIssue("warning", code, message, <<>>, line, suggestion)

create_warning(code, message, p, line, suggestion) ==
    ValidationIssue("warning", code, message, p, line, suggestion)

(***************************************************************************)
(* Phase 1: the syntax parser (yaml_validator/pipeline/syntax_parser.py).  *)
(***************************************************************************)
\* str.splitlines on the characters of the model: "n" ends a line, and a
\* final line end opens no further line.
RECURSIVE SplitFrom(_, _, _, _)
SplitFrom(text, i, cur, acc) ==
    IF i > Len(text)
    THEN IF cur = <<>> THEN acc ELSE Append(acc, cur)
    ELSE IF text[i] = "n"
         THEN SplitFrom(text, i + 1, <<>>, Append(acc, cur))
         ELSE SplitFrom(text, i + 1, Append(cur, text[i]), acc)

\* a split that drops the empty lines
SplitNonEmpty(text) ==
    SelectSeq(SplitFrom(text, 1, <<>>, <<>>), LAMBDA l : l # <<>>)

splitlines(text) == SplitFrom(text, 1, <<>>, <<>>)

\* str.index: the 0-based position of the first occurrence
index(line, ch) == (CHOOSE k \in 1..Len(line) :
                       line[k] = ch /\ \A j \in 1..(k - 1) : line[j] # ch) - 1

\* the first i of enumerate(lines, start=1) with a tab in the line
TabLine(lines) ==
    CHOOSE i \in 1..Len(lines) :
        "t" \in Range(lines[i]) /\ \A j \in 1..(i - 1) : "t" \notin Range(lines[j])

check_for_tabs(text) ==
    LET lines == splitlines(text) IN
    IF \E i \in 1..Len(lines) : "t" \in Range(lines[i])
    THEN LET i == TabLine(lines)
             col == index(lines[i], "t") + 1
         IN Some(create_error(YAML_TAB_ERROR, <<"Tab character found">>, <<>>,
                              Some(i), <<"Replace tab at column", ToString(col)>>))
    ELSE None

\* f"{prefix}.{key}" if prefix else key, applied along a key path
RECURSIVE PathKey(_)
PathKey(p) ==
    IF Len(p) = 0 THEN ""
    ELSE LET prefix == PathKey(SubSeq(p, 1, Len(p) - 1)) IN
         IF prefix = "" THEN p[Len(p)] ELSE prefix \o "." \o p[Len(p)]

\* line_map[path] = line of the key, for every mapping key in document
\* order: a later key with the same path string replaces an earlier one
RECURSIVE build_line_map(_)
build_line_map(tree) ==
    IF tree = <<>> THEN <<>>
    ELSE LET n == Len(tree)
             rest == build_line_map(SubSeq(tree, 1, n - 1))
             key == PathKey(tree[n].path)
         IN [k \in (DOMAIN rest) \cup {key} |->
                IF k = key THEN tree[n].line ELSE rest[k]]

\* the plain data: the same keys and values without the line metadata
convert_to_plain_dict(tree) ==
    [i \in 1..Len(tree) |->
        [path |-> tree[i].path, kind |-> tree[i].kind, strkey |-> tree[i].strkey]]

\* ".".join(path)
RECURSIVE join(_)
join(p) ==
    IF Len(p) = 0 THEN ""
    ELSE IF Len(p) = 1 THEN p[1]
    ELSE join(SubSeq(p, 1, Len(p) - 1)) \o "." \o p[Len(p)]

RECURSIVE ParentLine(_, _, _)
ParentLine(line_map, p, i) ==
    IF i < 1 THEN None
    ELSE IF join(SubSeq(p, 1, i)) \in DOMAIN line_map
         THEN Some(line_map[join(SubSeq(p, 1, i))])
         ELSE ParentLine(line_map, p, i - 1)

get_line_for_path(line_map, p) ==
    IF join(p) \in DOMAIN line_map
    THEN Some(line_map[join(p)])
    ELSE ParentLine(line_map, p, Len(p) - 1)

(***************************************************************************)
(* Documents.  yaml.load belongs to ruamel: its result for a tab-free text *)
(* is any of the outcomes below.  Block style is assumed for the trees:    *)
(* one key per line, so the line of a key is its position.                 *)
(***************************************************************************)
E(p, kind) == [path |-> p, kind |-> kind, strkey |-> TRUE]

Opt(p, kind) == IF kind = "absent" THEN <<>> ELSE <<E(p, kind)>>

\* a prompt mapping under pp with the given attribute values
PromptTree(pp, s) ==
    IF ~s.present THEN <<>>
    ELSE <<E(pp, "map")>>
         \o Opt(pp \o <<"identifiers">>, s.ids)
         \o Opt(pp \o <<"type">>, s.type)
         \o Opt(pp \o <<"instructions">>, s.instr)
         \o Opt(pp \o <<"required">>, s.req)

P(ids, type, instr, req) ==
    [present |-> TRUE, ids |-> ids, type |-> type, instr |-> instr, req |-> req]

NoPrompt ==
    [present |-> FALSE, ids |-> "absent", type |-> "absent", instr |-> "absent",
     req |-> "absent"]

F(prompt, extra) == [prompt |-> prompt, extra |-> extra]

FieldTree(fp, s) ==
    <<E(fp, "map")>> \o PromptTree(fp \o <<"prompt">>, s.prompt)
    \o (IF s.extra THEN <<E(fp \o <<"bogus">>, "str")>> ELSE <<>>)

Complete == F(P("strs", "str", "absent", "absent"), FALSE)
Bare == F(P("absent", "absent", "absent", "absent"), FALSE)
Promptless == F(NoPrompt, FALSE)

FieldShapesA ==
    {Complete, Bare, Promptless,
     F(P("absent", "str", "absent", "absent"), FALSE),
     F(P("strs", "absent", "absent", "absent"), FALSE),
     F(P("strs", "str", "absent", "bool"), FALSE),
     F(P("elist", "str", "absent", "absent"), FALSE),
     F(P("strs", "int", "absent", "absent"), FALSE),
     F(P("strs", "str", "absent", "absent"), TRUE)}

FieldShapesB == {Complete, Bare}

\* the value under "fields": absent, a list, or a mapping of named fields
Fields(kind, items) == [kind |-> kind, items |-> items]

FieldsShapes ==
    {Fields("absent", <<>>), Fields("strs", <<>>), Fields("map", <<>>),
     Fields("map", <<<<"charges", Complete>>>>)}
    \cup {Fields("map", <<<<"meters", a>>>>) : a \in FieldShapesA}
    \cup {Fields("map", <<<<"meters", a>>, <<"charges", b>>>>) :
            a \in {Complete, Promptless}, b \in FieldShapesB}

FieldsTree(gp, s) ==
    IF s.kind = "absent" THEN <<>>
    ELSE <<E(gp \o <<"fields">>, s.kind)>>
         \o Concat([i \in 1..Len(s.items) |->
                FieldTree(gp \o <<"fields", s.items[i][1]>>, s.items[i][2])])

GroupPromptShapes ==
    {NoPrompt,
     P("absent", "absent", "str", "absent"),
     P("absent", "str", "estr", "absent"),
     P("strs", "absent", "str", "bool")}

\* quirk: "" for none, "extra" an unknown attribute, "intkey" a key that is
\* not a string (1: ...)
G(kind, prompt, fields, quirk) ==
    [kind |-> kind, prompt |-> prompt, fields |-> fields, quirk |-> quirk]

Minimal == G("map", NoPrompt, Fields("map", <<<<"meters", Complete>>>>), "")

GroupShapes ==
    {G("map", p, f, "") : p \in GroupPromptShapes, f \in FieldsShapes}
    \cup {G("str", NoPrompt, Fields("absent", <<>>), ""),
          G("map", NoPrompt, Fields("map", <<<<"meters", Complete>>>>), "extra"),
          G("map", NoPrompt, Fields("map", <<<<"meters", Complete>>>>), "intkey")}

OtherShapes ==
    {Minimal,
     G("str", NoPrompt, Fields("absent", <<>>), ""),
     G("map", NoPrompt, Fields("map", <<<<"meters", Promptless>>>>), ""),
     G("map", NoPrompt, Fields("map", <<<<"meters", Complete>>>>), "extra")}

\* the shapes of "statement" in a document of two groups
PairShapes ==
    {Minimal,
     G("str", NoPrompt, Fields("absent", <<>>), ""),
     G("map", NoPrompt, Fields("map", <<<<"meters", Complete>>>>), "extra"),
     G("map", NoPrompt, Fields("map", <<<<"meters", Complete>>>>), "intkey"),
     G("map", NoPrompt, Fields("strs", <<>>), ""),
     G("map", NoPrompt, Fields("map", <<>>), ""),
     G("map", NoPrompt, Fields("map", <<<<"meters", Bare>>>>), ""),
     G("map", P("absent", "str", "estr", "absent"),
       Fields("map", <<<<"meters", Promptless>>, <<"charges", Complete>>>>), ""),
     G("map", NoPrompt,
       Fields("map", <<<<"meters", F(P("elist", "str", "absent", "absent"), FALSE)>>>>),
       "")}

GroupTree(name, strkey, s) ==
    <<[path |-> <<name>>, kind |-> s.kind, strkey |-> strkey]>>
    \o (IF s.kind # "map" THEN <<>>
        ELSE PromptTree(<<name, "prompt">>, s.prompt)
             \o FieldsTree(<<name>>, s.fields)
             \o (IF s.quirk = "extra" THEN <<E(<<name, "bogus">>, "str")>> ELSE <<>>)
             \o (IF s.quirk = "intkey"
                 THEN <<[path |-> <<name, "1">>, kind |-> "str", strkey |-> FALSE]>>
                 ELSE <<>>))

\* the key of every mapping entry is on its own line, in document order
Numbered(entries) ==
    [i \in 1..Len(entries) |->
        [path |-> entries[i].path, kind |-> entries[i].kind,
         strkey |-> entries[i].strkey, line |-> i]]

Trees ==
    {<<>>}
    \cup {GroupTree("statement", TRUE, s) : s \in GroupShapes}
    \cup {GroupTree("other", TRUE, s) : s \in OtherShapes}
    \cup {GroupTree("7", FALSE, Minimal)}
    \cup {GroupTree("statement", TRUE, s) \o GroupTree("other", TRUE, o) :
            s \in PairShapes, o \in OtherShapes}
    \cup {GroupTree("other", TRUE, o) \o GroupTree("statement", TRUE, Minimal) :
            o \in OtherShapes}
    \cup {GroupTree("7", FALSE, Minimal) \o GroupTree("statement", TRUE, Minimal)}

\* what yaml.load gives: a YAMLError (problem mark line, words of the
\* message), None, a top-level scalar or sequence, or a mapping
YamlOutcomes ==
    {[kind |-> "error", line |-> l, words |-> w, tree |-> <<>>] :
        l \in {None, Some(1)}, w \in SUBSET {"indent", "mapping"}}
    \cup {[kind |-> "none", line |-> None, words |-> {}, tree |-> <<>>],
          [kind |-> "scalar", line |-> None, words |-> {}, tree |-> <<>>]}
    \cup {[kind |-> "map", line |-> None, words |-> {}, tree |-> Numbered(t)] :
            t \in Trees}

ParseResult(success, data, line_map, error) ==
    [success |-> success, data |-> data, line_map |-> line_map, error |-> error]

NoData == [top |-> "none", entries |-> <<>>]

\* parse_yaml once yaml.load has answered with outcome y
parse_yaml(text, y) ==
    LET tab_error == check_for_tabs(text) IN
    IF tab_error # None
    THEN ParseResult(FALSE, NoData, <<>>, tab_error)
    ELSE IF y.kind = "error"
    THEN LET code == IF "indent" \in y.words THEN YAML_INDENT_ERROR
                     ELSE IF "mapping" \in y.words THEN YAML_MAPPING_ERROR
                     ELSE YAML_PARSE_ERROR
         IN ParseResult(FALSE, NoData, <<>>,
                Some(create_error(code, <<"yaml error">>, <<>>, y.line, <<>>)))
    ELSE IF y.kind = "none"
    THEN ParseResult(FALSE, NoData, <<>>,
            Some(create_error(YAML_PARSE_ERROR, <<"YAML file is empty">>, <<>>, None,
                              <<"Add content to the YAML file">>)))
    ELSE ParseResult(TRUE,
            [top |-> y.kind, entries |-> convert_to_plain_dict(y.tree)],
            build_line_map(y.tree), None)

(***************************************************************************)
(* Phase 2: the schema loader (yaml_validator/pipeline/schema_loader.py)   *)
(* and the typed models (yaml_validator/models/schema_definitions.py).     *)
(***************************************************************************)
Key(e) == e.path[Len(e.path)]

\* the entries directly under path p, in document order
Kids(d, p) ==
    SelectSeq(d, LAMBDA e : Len(e.path) = Len(p) + 1 /\ IsPrefix(p, e.path))

Has(d, p) == \E i \in 1..Len(d) : d[i].path = p

KindAt(d, p) ==
    IF Has(d, p) THEN d[CHOOSE i \in 1..Len(d) : d[i].path = p].kind ELSE "absent"

\* an attribute of a typed model is None when absent or null
IsNone(d, p) == KindAt(d, p) \in {"absent", "null"}

PydanticError(type, loc) == [type |-> type, loc |-> loc]

PromptAttrs ==
    {"identifiers", "type", "instructions", "description", "format",
     "attr_name", "default", "required"}

Extras(d, p, loc, known) ==
    LET ks == SelectSeq(Kids(d, p), LAMBDA e : Key(e) \notin known) IN
    [i \in 1..Len(ks) |-> PydanticError("extra_forbidden", loc \o <<Key(ks[i])>>)]

StringAttr(d, p, loc, attr) ==
    IF KindAt(d, p \o <<attr>>) \in {"absent", "null", "str", "estr"} THEN <<>>
    ELSE <<PydanticError("string_type", loc \o <<attr>>)>>

\* validate_identifiers: an explicitly empty list is a ValueError
IdentifiersAcceptsEmpty(k) == FALSE

IdentifiersRejected(k) == k = "elist"

\* class Prompt, extra="forbid"
PromptErrors(d, p, loc) ==
    LET ids == KindAt(d, p \o <<"identifiers">>)
        type == KindAt(d, p \o <<"type">>)
        req == KindAt(d, p \o <<"required">>)
    IN (IF ids \in {"absent", "null", "strs"} THEN <<>>
        ELSE IF ids = "elist"
        THEN IF IdentifiersRejected(ids)
             THEN <<PydanticError("value_error", loc \o <<"identifiers">>)>>
             ELSE <<>>
        ELSE <<PydanticError("list_type", loc \o <<"identifiers">>)>>)
       \o (IF type \in {"absent", "null", "str", "estr", "strs", "elist"} THEN <<>>
           ELSE <<PydanticError("string_type", loc \o <<"type", "str">>),
                  PydanticError("list_type", loc \o <<"type", "list[str]">>)>>)
       \o StringAttr(d, p, loc, "instructions")
       \o StringAttr(d, p, loc, "description")
       \o StringAttr(d, p, loc, "format")
       \o StringAttr(d, p, loc, "attr_name")
       \o (IF req \in {"absent", "null", "bool"} THEN <<>>
           ELSE <<PydanticError("bool_type", loc \o <<"required">>)>>)
       \o Extras(d, p, loc, PromptAttrs)

OptionalPromptErrors(d, p, loc) ==
    LET k == KindAt(d, p \o <<"prompt">>) IN
    IF k \in {"absent", "null"} THEN <<>>
    ELSE IF k = "map" THEN PromptErrors(d, p \o <<"prompt">>, loc \o <<"prompt">>)
    ELSE <<PydanticError("model_type", loc \o <<"prompt">>)>>

\* class ExtractedField, extra="forbid"
ExtractedFieldErrors(d, p, loc) ==
    OptionalPromptErrors(d, p, loc) \o Extras(d, p, loc, {"prompt"})

\* class Group, extra="forbid"
GroupErrors(d, g) ==
    LET k == KindAt(d, <<g, "fields">>)
        fs == Kids(d, <<g, "fields">>)
    IN OptionalPromptErrors(d, <<g>>, <<>>)
       \o (IF k \in {"absent", "null"} THEN <<>>
           ELSE IF k # "map" THEN <<PydanticError("dict_type", <<"fields">>)>>
           ELSE Concat([i \in 1..Len(fs) |->
                    IF fs[i].kind = "map"
                    THEN ExtractedFieldErrors(d, fs[i].path, <<"fields", Key(fs[i])>>)
                    ELSE <<PydanticError("model_type", <<"fields", Key(fs[i])>>)>>]))
       \o Extras(d, <<g>>, <<>>, {"prompt", "fields"})

\* _format_pydantic_error: the message by error kind
format_pydantic_error(error, group_name) ==
    LET msg == IF error.type = "extra_forbidden"
               THEN <<"Unknown field is not allowed", error.loc[Len(error.loc)]>>
               ELSE IF error.type = "missing"
               THEN <<"Required field is missing", error.loc[Len(error.loc)]>>
               ELSE IF error.type = "string_type" THEN <<"Expected a string value">>
               ELSE IF error.type = "list_type" THEN <<"Expected a list">>
               ELSE IF error.type = "dict_type" THEN <<"Expected a dictionary">>
               ELSE <<"Validation error">>
    IN [msg |-> msg, path |-> <<group_name>> \o error.loc]

LoadResult(exc, model, errs) == [raised |-> exc, model |-> model, errors |-> errs]

\* Group(**group_data) is a call with keyword arguments: a key of
\* group_data that is not a string makes the call itself a TypeError
GroupCallRaises(d, e) == \E i \in 1..Len(d) : IsPrefix(e.path, d[i].path)
                            /\ Len(d[i].path) = 2 /\ ~d[i].strkey

\* the errors one top-level entry adds in the loop of load_yaml_to_models
GroupLoadErrors(d, line_map, e) ==
    LET group_name == Key(e) IN
    IF ~e.strkey
    THEN <<create_error(STRUCTURE_ERROR, <<"Group name must be a string">>,
                        <<group_name>>, None, <<>>)>>
    ELSE IF e.kind # "map"
    THEN <<create_error(STRUCTURE_ERROR, <<"Group must be a dictionary", group_name>>,
                        <<group_name>>,
                        IF group_name \in DOMAIN line_map
                        THEN Some(line_map[group_name]) ELSE None,
                        <<"Define as a mapping", group_name>>)>>
    ELSE LET es == GroupErrors(d, group_name) IN
         [i \in 1..Len(es) |->
            LET f == format_pydantic_error(es[i], group_name) IN
            create_error(PYDANTIC_VALIDATION_ERROR, f.msg, f.path,
                         get_line_for_path(line_map, f.path), <<>>)]

\* "if errors: return None, errors"
VoidsModel(errs) == errs # <<>>

load_yaml_to_models(data, line_map) ==
    LET d == data.entries
        groups == Kids(d, <<>>)
    IN IF data.top # "map"
       THEN LoadResult("", None,
                <<create_error(STRUCTURE_ERROR, <<"Top-level must be a dictionary">>,
                               <<>>, None, <<"YAML should start with group names">>)>>)
       ELSE IF d = <<>>
       THEN LoadResult("", None,
                <<create_error(STRUCTURE_ERROR, <<"YAML contains no groups">>,
                               <<>>, None, <<"Add at least one group">>)>>)
       ELSE IF \E i \in 1..Len(groups) :
                  groups[i].strkey /\ groups[i].kind = "map"
                  /\ GroupCallRaises(d, groups[i])
       THEN LoadResult("TypeError", None, <<>>)
       ELSE LET errs == Concat([i \in 1..Len(groups) |->
                            GroupLoadErrors(d, line_map, groups[i])])
            IN IF VoidsModel(errs) THEN LoadResult("", None, errs)
               ELSE LoadResult("", Some(d), <<>>)

(***************************************************************************)
(* Rules.  A rule instance is a record: its class, its id, the arguments   *)
(* its constructor kept, and, for a test rule ("Stub"), what its validate  *)
(* does: the exception text it raises ("" for none) or the issues it       *)
(* returns.                                                                *)
(***************************************************************************)
RuleInstance(cls, id, group_name, required, allowed, exc, issues) ==
    [cls |-> cls, id |-> id, group_name |-> group_name, required |-> required,
     allowed |-> allowed, exc |-> exc, issues |-> issues]

CoreRule(cls, id) == RuleInstance(cls, id, "", {}, {}, "", <<>>)

Stub(id, exc, issues) == RuleInstance("Stub", id, "", {}, {}, exc, issues)

Outcome(exc, issues) == [exc |-> exc, issues |-> issues]

\* model.items(): the groups in document order
Groups(model) == Kids(model, <<>>)

\* "if group.fields:" then "for field_name, field in group.fields.items()"
FieldsOf(model, g) == Kids(model, <<g, "fields">>)

\* yaml_validator/pipeline/semantic_rules.py
GroupPromptInstructionsRule(model, line_map) ==
    Concat([i \in 1..Len(Groups(model)) |->
        LET g == Key(Groups(model)[i])
            p == <<g, "prompt", "instructions">>
        IN IF ~IsNone(model, <<g, "prompt">>)
              /\ KindAt(model, p) \in {"absent", "null", "estr"}
           THEN <<create_error(GROUP_PROMPT_NO_INSTRUCTIONS,
                      <<"Group has a prompt but missing instructions", g>>, p,
                      get_line_for_path(line_map, p), <<"Add instructions">>)>>
           ELSE <<>>])

\* Prompt.has_ignored_group_attrs, in the order it appends
IgnoredGroupAttrs ==
    <<"identifiers", "type", "attr_name", "default", "description", "format",
      "required">>

GroupPromptIgnoredAttrsRule(model, line_map) ==
    Concat([i \in 1..Len(Groups(model)) |->
        LET g == Key(Groups(model)[i])
            set == SelectSeq(IgnoredGroupAttrs,
                       LAMBDA a : ~IsNone(model, <<g, "prompt", a>>))
        IN IF IsNone(model, <<g, "prompt">>) THEN <<>>
           ELSE [k \in 1..Len(set) |->
                    create_warning(GROUP_PROMPT_IGNORED_ATTRS,
                        <<"Attribute is ignored for Group prompts", set[k]>>,
                        <<g, "prompt", set[k]>>,
                        get_line_for_path(line_map, <<g, "prompt", set[k]>>),
                        <<"Remove from group prompt", set[k]>>)]])

\* the pairs <<group_name, field_name>> the loop over groups and fields shared
\* by the four field rules goes through, in order
AllFields(model) ==
    Concat([i \in 1..Len(Groups(model)) |->
        LET g == Key(Groups(model)[i]) IN
        [k \in 1..Len(FieldsOf(model, g)) |-> <<g, Key(FieldsOf(model, g)[k])>>]])

FieldPromptRequiredRule(model, line_map) ==
    LET Check(g, f) ==
            IF IsNone(model, <<g, "fields", f, "prompt">>)
            THEN <<create_error(FIELD_NO_PROMPT, <<"Field is missing prompt", f>>,
                       <<g, "fields", f, "prompt">>,
                       get_line_for_path(line_map, <<g, "fields", f>>),
                       <<"Add prompt">>)>>
            ELSE <<>>
    IN Concat([k \in 1..Len(AllFields(model)) |->
            Check(AllFields(model)[k][1], AllFields(model)[k][2])])

FieldIdentifiersRequiredRule(model, line_map) ==
    LET Check(g, f) ==
            LET p == <<g, "fields", f, "prompt", "identifiers">> IN
            IF IsNone(model, <<g, "fields", f, "prompt">>) THEN <<>>
            ELSE IF IsNone(model, p)
            THEN <<create_error(FIELD_NO_IDENTIFIERS,
                       <<"Field is missing identifiers", f>>, p,
                       get_line_for_path(line_map, p), <<"Add identifiers">>)>>
            ELSE IF KindAt(model, p) = "elist"
            THEN <<create_error(FIELD_EMPTY_IDENTIFIERS,
                       <<"Field has empty identifiers list", f>>, p,
                       get_line_for_path(line_map, p),
                       <<"Add at least one identifier">>)>>
            ELSE <<>>
    IN Concat([k \in 1..Len(AllFields(model)) |->
            Check(AllFields(model)[k][1], AllFields(model)[k][2])])

FieldTypeUnchecked(model, line_map) == <<>>

FieldTypeRequiredRule(model, line_map) ==
    LET Check(g, f) ==
            LET p == <<g, "fields", f, "prompt", "type">> IN
            IF ~IsNone(model, <<g, "fields", f, "prompt">>) /\ IsNone(model, p)
            THEN <<create_error(FIELD_NO_TYPE, <<"Field is missing type", f>>, p,
                       get_line_for_path(line_map, p), <<"Add type">>)>>
            ELSE <<>>
    IN Concat([k \in 1..Len(AllFields(model)) |->
            Check(AllFields(model)[k][1], AllFields(model)[k][2])])

FieldRequiredIgnoredRule(model, line_map) ==
    LET Check(g, f) ==
            LET p == <<g, "fields", f, "prompt", "required">> IN
            IF ~IsNone(model, <<g, "fields", f, "prompt">>) /\ ~IsNone(model, p)
            THEN <<create_warning(FIELD_REQUIRED_IGNORED,
                       <<"Field has required set, but it is ignored", f>>, p,
                       get_line_for_path(line_map, p), <<"Remove required">>)>>
            ELSE <<>>
    IN Concat([k \in 1..Len(AllFields(model)) |->
            Check(AllFields(model)[k][1], AllFields(model)[k][2])])

\* CORE_RULES, in registration order
\* a list of core rules that also holds a rule of the profile
CoreRulesWithProfileRule ==
    <<CoreRule("GroupPromptInstructionsRule", GROUP_PROMPT_NO_INSTRUCTIONS),
      CoreRule("GroupPromptIgnoredAttrsRule", GROUP_PROMPT_IGNORED_ATTRS),
      CoreRule("FieldPromptRequiredRule", FIELD_NO_PROMPT),
      CoreRule("FieldIdentifiersRequiredRule", FIELD_NO_IDENTIFIERS),
      CoreRule("FieldTypeRequiredRule", FIELD_NO_TYPE),
      CoreRule("FieldRequiredIgnoredRule", FIELD_REQUIRED_IGNORED),
      RuleInstance("TopLevelKeysRule", PROFILE_INVALID_TOP_LEVEL_KEY, "",
                   {"statement"}, {"statement"}, "", <<>>)>>

CORE_RULES ==
    <<CoreRule("GroupPromptInstructionsRule", GROUP_PROMPT_NO_INSTRUCTIONS),
      CoreRule("GroupPromptIgnoredAttrsRule", GROUP_PROMPT_IGNORED_ATTRS),
      CoreRule("FieldPromptRequiredRule", FIELD_NO_PROMPT),
      CoreRule("FieldIdentifiersRequiredRule", FIELD_NO_IDENTIFIERS),
      CoreRule("FieldTypeRequiredRule", FIELD_NO_TYPE),
      CoreRule("FieldRequiredIgnoredRule", FIELD_REQUIRED_IGNORED)>>

(***************************************************************************)
(* Profile rules (src/src/rules/profile_rules/statement_only.py).          *)
(***************************************************************************)
\* The names a document or a profile can use, in ascending string order.
SortedNames == <<"charges", "meters", "other", "statement", "usage">>

Rank(name) == CHOOSE i \in 1..Len(SortedNames) : SortedNames[i] = name

\* iterating a Python set visits its elements in an order the hash seed of
\* the process decides: "order" lists the names in that order
InOrder(set, order) == SelectSeq(order, LAMBDA k : k \in set)

\* sorted(set)
sorted(set) == InOrder(set, SortedNames)

\* "required_keys or {"statement"}": an empty or absent argument is replaced
OrDefault(given, default) == IF given = {} THEN default ELSE given

TopLevelKeysRuleInit(required_keys, allowed_keys) ==
    RuleInstance("TopLevelKeysRule", PROFILE_INVALID_TOP_LEVEL_KEY, "",
                 OrDefault(required_keys, {"statement"}),
                 OrDefault(allowed_keys, {"statement"}), "", <<>>)

TopLevelKeysRule(self, model, line_map, order) ==
    LET present_keys == {Key(e) : e \in Range(Groups(model))}
        missing == InOrder(self.required \ present_keys, order)
        extra == InOrder(present_keys \ self.allowed, order)
    IN [i \in 1..Len(missing) |->
            create_error(PROFILE_MISSING_REQUIRED_KEY,
                <<"Required top-level key is missing", missing[i]>>, <<>>, None,
                <<"Add at the top level", missing[i]>>)]
       \o [i \in 1..Len(extra) |->
            create_error(self.id, <<"Top-level key is not allowed", extra[i]>>,
                <<extra[i]>>, get_line_for_path(line_map, <<extra[i]>>),
                <<"Remove", extra[i]>>)]

RequiredFieldsRuleInit(group_name, required_fields) ==
    RuleInstance("RequiredFieldsRule", PROFILE_MISSING_REQUIRED_FIELD, group_name,
                 OrDefault(required_fields, {"meters", "charges"}), {}, "", <<>>)

RequiredFieldsRule(self, model, line_map) ==
    LET g == self.group_name
        present_fields == {Key(e) : e \in Range(Kids(model, <<g, "fields">>))}
        missing == sorted(self.required \ present_fields)
    IN IF ~Has(model, <<g>>) THEN <<>>
       ELSE IF IsNone(model, <<g, "fields">>)
       THEN <<create_error(self.id, <<"Group has no fields", g>>, <<g, "fields">>,
                  None, <<"Add fields section with required fields">>)>>
       ELSE [i \in 1..Len(missing) |->
                create_error(self.id, <<"Required field is missing", missing[i]>>,
                    <<g, "fields", missing[i]>>,
                    get_line_for_path(line_map, <<g, "fields">>),
                    <<"Add with prompt", missing[i]>>)]

FieldsDictTypeRuleInit(group_name) ==
    RuleInstance("FieldsDictTypeRule", PROFILE_INVALID_FIELDS_TYPE, group_name,
                 {}, {}, "", <<>>)

FieldsDictTypeRule(self, model, line_map) ==
    LET g == self.group_name IN
    IF Has(model, <<g>>) /\ ~IsNone(model, <<g, "fields">>)
       /\ KindAt(model, <<g, "fields">>) # "map"
    THEN <<create_error(self.id, <<"fields must be a dictionary", g>>,
               <<g, "fields">>, None, <<"Use field_name: as keys, not a list">>)>>
    ELSE <<>>

\* rule.validate(model, line_map): the issues, or the exception raised
validate(self, model, line_map, order) ==
    IF self.cls = "Stub" THEN Outcome(self.exc, self.issues)
    ELSE Outcome("",
        CASE self.cls = "GroupPromptInstructionsRule" ->
                GroupPromptInstructionsRule(model, line_map)
          [] self.cls = "GroupPromptIgnoredAttrsRule" ->
                GroupPromptIgnoredAttrsRule(model, line_map)
          [] self.cls = "FieldPromptRequiredRule" ->
                FieldPromptRequiredRule(model, line_map)
          [] self.cls = "FieldIdentifiersRequiredRule" ->
                FieldIdentifiersRequiredRule(model, line_map)
          [] self.cls = "FieldTypeRequiredRule" ->
                FieldTypeRequiredRule(model, line_map)
          [] self.cls = "FieldRequiredIgnoredRule" ->
                FieldRequiredIgnoredRule(model, line_map)
          [] self.cls = "TopLevelKeysRule" ->
                TopLevelKeysRule(self, model, line_map, order)
          [] self.cls = "RequiredFieldsRule" ->
                RequiredFieldsRule(self, model, line_map)
          [] self.cls = "FieldsDictTypeRule" ->
                FieldsDictTypeRule(self, model, line_map))

(***************************************************************************)
(* The rule registry (src/src/rules/base.py).                              *)
(***************************************************************************)
RuleRegistry == [core_rules |-> <<>>, profile_rules |-> <<>>]

register_core(reg, r) == [reg EXCEPT !.core_rules = Append(@, r)]

register_profile_rule(reg, profile_name, r) ==
    [reg EXCEPT !.profile_rules =
        [n \in (DOMAIN @) \cup {profile_name} |->
            IF n \in DOMAIN @
            THEN IF n = profile_name THEN Append(@[n], r) ELSE @[n]
            ELSE <<r>>]]

Run(issues, invoked) == [issues |-> issues, invoked |-> invoked]

\* the issue that replaces a rule whose validate raised
RuleFailed(prefix, r, exc) ==
    ValidationIssue("error", INTERNAL_FAILURE, <<prefix, r.id, "failed", exc>>,
                    <<>>, None, <<>>)

\* a loop that lets the exception of a rule end the run
RECURSIVE RunRulesAborting(_, _, _, _, _, _)
RunRulesAborting(rules, i, acc, prefix, model, ctx) ==
    IF i > Len(rules) THEN acc
    ELSE LET o == validate(rules[i], model, ctx.line_map, ctx.order)
             inv == Append(acc.invoked, rules[i].id)
         IN IF o.exc # ""
            THEN Run(Append(acc.issues, RuleFailed(prefix, rules[i], o.exc)), inv)
            ELSE RunRulesAborting(rules, i + 1, Run(acc.issues \o o.issues, inv),
                                  prefix, model, ctx)

\* "for rule in rules: try: issues.extend(rule.validate(...)) except ..."
RECURSIVE RunRules(_, _, _, _, _, _)
RunRules(rules, i, acc, prefix, model, ctx) ==
    IF i > Len(rules) THEN acc
    ELSE LET o == validate(rules[i], model, ctx.line_map, ctx.order)
             inv == Append(acc.invoked, rules[i].id)
         IN RunRules(rules, i + 1,
                IF o.exc # ""
                THEN Run(Append(acc.issues, RuleFailed(prefix, rules[i], o.exc)), inv)
                ELSE Run(acc.issues \o o.issues, inv),
                prefix, model, ctx)

Ctx(line_map, order) == [line_map |-> line_map, order |-> order]

run_core_rules(reg, model, ctx) ==
    RunRules(reg.core_rules, 1, Run(<<>>, <<>>), "Rule", model, ctx)

run_profile_rules(reg, profile_name, model, ctx) ==
    IF profile_name \notin DOMAIN reg.profile_rules THEN Run(<<>>, <<>>)
    ELSE RunRules(reg.profile_rules[profile_name], 1, Run(<<>>, <<>>),
                  "Profile rule", model, ctx)

RunAllProfileFirst(reg, model, ctx, profile_name) ==
    LET core == run_core_rules(reg, model, ctx)
        prof == run_profile_rules(reg, profile_name, model, ctx)
    IN IF profile_name # ""
       THEN Run(prof.issues \o core.issues, prof.invoked \o core.invoked)
       ELSE core

\* profile_name "" is None
run_all(reg, model, ctx, profile_name) ==
    LET core == run_core_rules(reg, model, ctx) IN
    IF profile_name # ""
    THEN LET prof == run_profile_rules(reg, profile_name, model, ctx) IN
         Run(core.issues \o prof.issues, core.invoked \o prof.invoked)
    ELSE core

(***************************************************************************)
(* The profile store (src/src/profiles/loader.py).  A config file is its   *)
(* "rules" section; the contents of statement_only are those of            *)
(* STATEMENT_ONLY_CONFIG.                                                  *)
(***************************************************************************)
ProfileConfig(required, allowed, groups) ==
    [required_top_level_keys |-> required, allowed_top_level_keys |-> allowed,
     groups |-> groups]

GroupConfig(name, required, type) ==
    [name |-> name, required_fields |-> required, type |-> type]

STATEMENT_ONLY_CONFIG ==
    ProfileConfig({"statement"}, {"statement"},
                  <<GroupConfig("statement", {"meters", "charges"}, "dict")>>)

\* the profiles the store holds when the call starts
KnownProfiles == {"statement_only"}

ConfigOf(name) == STATEMENT_ONLY_CONFIG

\* config_path.exists()
profile_exists(files, profile_name) == profile_name \in files

create_rules_from_config(config) ==
    (IF config.required_top_level_keys # {} \/ config.allowed_top_level_keys # {}
     THEN <<TopLevelKeysRuleInit(config.required_top_level_keys,
                OrDefault(config.allowed_top_level_keys,
                          config.required_top_level_keys))>>
     ELSE <<>>)
    \o Concat([i \in 1..Len(config.groups) |->
        (IF config.groups[i].required_fields # {}
         THEN <<RequiredFieldsRuleInit(config.groups[i].name,
                                       config.groups[i].required_fields)>>
         ELSE <<>>)
        \o (IF config.groups[i].type = "dict"
            THEN <<FieldsDictTypeRuleInit(config.groups[i].name)>>
            ELSE <<>>)])

RECURSIVE RegisterAll(_, _, _, _)
RegisterAll(reg, profile_name, rules, i) ==
    IF i > Len(rules) THEN reg
    ELSE RegisterAll(register_profile_rule(reg, profile_name, rules[i]),
                     profile_name, rules, i + 1)

\* register_profile(registry, profile_name): load_profile_config raises
\* ProfileNotFoundError when the config file does not exist
register_profile(reg, profile_name, files) ==
    IF ~profile_exists(files, profile_name)
    THEN [raised |-> "ProfileNotFoundError", registry |-> reg]
    ELSE [raised |-> "",
          registry |-> RegisterAll(reg, profile_name,
                           create_rules_from_config(ConfigOf(profile_name)), 1)]

RECURSIVE RegisterCore(_, _, _)
RegisterCore(reg, rules, i) ==
    IF i > Len(rules) THEN reg
    ELSE RegisterCore(register_core(reg, rules[i]), rules, i + 1)

\* register_core_rules(registry)
register_core_rules(reg) == RegisterCore(reg, CORE_RULES, 1)

(***************************************************************************)
(* validate_yaml_schema (src/src/validator.py), one action per phase.      *)
(***************************************************************************)
ValidationResult(success, errs, warns) ==
    [success |-> success, errors |-> errs, warnings |-> warns]

\* "_global_registry = RuleRegistry()": the object at reference 0
Heap == [r \in {0} |-> RuleRegistry]

NoResult == ValidationResult(FALSE, <<>>, <<>>)

NoParse == ParseResult(FALSE, NoData, <<>>, None)

NoLoad == LoadResult("", None, <<>>)

NoRule == Stub("", "", <<>>)

NoConfig == ProfileConfig({}, {}, <<>>)

\* an observed call, and the observed validate of the rule with an id
Call(op) == [op |-> op, arg |-> ""]

Called(op) == \E i \in 1..Len(calls) : calls[i].op = op

Errors(issues) == SelectSeq(issues, LAMBDA x : x.severity = "error")

WarningsDropped(issues) == <<>>

NonErrors(issues) == SelectSeq(issues, LAMBDA x : x.severity # "error")

\* the orders in which a set of top-level keys can be iterated
Orders == {<<"statement", "other">>, <<"other", "statement">>}

SuccessNoIssues(errs, warns) == Len(errs) = 0 /\ Len(warns) = 0

\* "success=len(errors) == 0"
Success(errs, warns) == Len(errs) = 0

\* "if not parse_result.success: return"
ParseOk(pr) == pr.success

LoadErrorsIgnored(lr) == FALSE

\* "if load_errors: return"
LoadFailed(lr) == lr.errors # <<>>

FailFastOnAnyIssue(ff, errs, warns) == ff /\ (errs # <<>> \/ warns # <<>>)

\* "if fail_fast and errors: return"
FailFastExit(ff, errs, warns) == ff /\ errs # <<>>

Init ==
    /\ pc = "start"
    /\ yaml_text \in Texts(MaxLen)
    /\ profile \in {"", "statement_only", "nonexistent"}
    /\ fail_fast \in BOOLEAN
    /\ store = KnownProfiles
    /\ parse_result = NoParse
    /\ load_result = NoLoad
    /\ registry = None
    /\ errors = <<>>
    /\ warnings = <<>>
    /\ result = NoResult
    /\ raised = ""
    /\ calls = <<>>
    /\ document = <<>>
    /\ rule = NoRule
    /\ path = <<>>
    /\ out = <<>>
    /\ issue_list = <<>>
    /\ heap = Heap
    /\ profile_config = NoConfig
    /\ indent_size = 2
    /\ ErrorCodes = validation_result

Return(r) ==
    /\ pc' = "done"
    /\ result' = r

Raise(exc) ==
    /\ pc' = "done"
    /\ raised' = exc

\* "if profile and not profile_exists(profile): raise"
CheckProfile ==
    /\ pc = "start"
    /\ IF profile # ""
       THEN /\ calls' = Append(calls, Call("profile_exists"))
            /\ IF ~profile_exists(store, profile)
               THEN Raise("ProfileNotFoundError") /\ UNCHANGED result
               ELSE pc' = "parse" /\ UNCHANGED <<result, raised>>
       ELSE pc' = "parse" /\ UNCHANGED <<calls, result, raised>>
    /\ UNCHANGED <<yaml_text, profile, fail_fast, store, parse_result, load_result,
                   registry, errors, warnings, document, rule, path, out,
                   issue_list, heap, profile_config, indent_size, ErrorCodes>>

\* phase 1; a text with no character other than line ends decodes to nothing
Parse ==
    /\ pc = "parse"
    /\ \E y \in YamlOutcomes :
        /\ "c" \notin Range(yaml_text) => y.kind = "none"
        /\ check_for_tabs(yaml_text) # None => y.kind = "none"
        /\ parse_result' = parse_yaml(yaml_text, y)
        /\ document' = y.tree
        /\ calls' = calls \o <<Call("parse_yaml")>>
                    \o (IF check_for_tabs(yaml_text) = None
                        THEN <<Call("yaml.load")>> ELSE <<>>)
    /\ IF ParseOk(parse_result')
       THEN pc' = "load" /\ UNCHANGED result
       ELSE Return(ValidationResult(FALSE, parse_result'.error, <<>>))
    /\ UNCHANGED <<yaml_text, profile, fail_fast, store, load_result, registry,
                   errors, warnings, raised, rule, path, out,
                   issue_list, heap, profile_config, indent_size, ErrorCodes>>

\* phase 2
Load ==
    /\ pc = "load"
    /\ load_result' = load_yaml_to_models(parse_result.data, parse_result.line_map)
    /\ calls' = Append(calls, Call("load_yaml_to_models"))
    /\ IF load_result'.raised # ""
       THEN Raise(load_result'.raised) /\ UNCHANGED result
       ELSE IF LoadFailed(load_result')
       THEN Return(ValidationResult(FALSE, load_result'.errors, <<>>))
            /\ UNCHANGED raised
       ELSE pc' = "register" /\ UNCHANGED <<result, raised>>
    /\ UNCHANGED <<yaml_text, profile, fail_fast, store, parse_result, registry,
                   errors, warnings, document, rule, path, out,
                   issue_list, heap, profile_config, indent_size, ErrorCodes>>

\* the typed model the rules are given
Model(lr) == IF lr.model = None THEN <<>> ELSE lr.model[1]

Validations(ids) == [i \in 1..Len(ids) |-> [op |-> "validate", arg |-> ids[i]]]

\* "registry = RuleRegistry(); register_core_rules(registry);
\*  if profile: register_profile(registry, profile)"
Register ==
    /\ pc = "register"
    /\ LET reg == register_core_rules(RuleRegistry)
           r == register_profile(reg, profile, store)
       IN IF profile = ""
          THEN /\ registry' = Some(reg)
               /\ calls' = Append(calls, Call("RuleRegistry"))
               /\ pc' = "core"
               /\ UNCHANGED raised
          ELSE /\ registry' = Some(r.registry)
               /\ calls' = calls \o <<Call("RuleRegistry"), Call("load_profile_config")>>
               /\ IF r.raised # ""
                  THEN Raise(r.raised)
                  ELSE pc' = "core" /\ UNCHANGED raised
    /\ UNCHANGED <<yaml_text, profile, fail_fast, store, parse_result, load_result,
                   errors, warnings, result, document, rule, path, out,
                   issue_list, heap, profile_config, indent_size, ErrorCodes>>

\* phase 3, and the fail-fast exit after it
RunCore ==
    /\ pc = "core"
    /\ LET run == run_core_rules(registry[1], Model(load_result),
                                 Ctx(parse_result.line_map, <<>>))
       IN /\ errors' = errors \o Errors(run.issues)
          /\ warnings' = warnings \o NonErrors(run.issues)
          /\ calls' = calls \o Validations(run.invoked)
    /\ IF FailFastExit(fail_fast, errors', warnings')
       THEN Return(ValidationResult(FALSE, errors', warnings'))
       ELSE pc' = "profile" /\ UNCHANGED result
    /\ UNCHANGED <<yaml_text, profile, fail_fast, store, parse_result, load_result,
                   registry, raised, document, rule, path, out,
                   issue_list, heap, profile_config, indent_size, ErrorCodes>>

\* phase 4 and the final result
RunProfile ==
    /\ pc = "profile"
    /\ IF profile # ""
       THEN \E order \in Orders :
              LET run == run_profile_rules(registry[1], profile, Model(load_result),
                                           Ctx(parse_result.line_map, order))
              IN /\ errors' = errors \o Errors(run.issues)
                 /\ warnings' = warnings \o NonErrors(run.issues)
                 /\ calls' = calls \o Validations(run.invoked)
       ELSE UNCHANGED <<errors, warnings, calls>>
    /\ Return(ValidationResult(Success(errors', warnings'), errors', warnings'))
    /\ UNCHANGED <<yaml_text, profile, fail_fast, store, parse_result, load_result,
                   registry, raised, document, rule, path, out,
                   issue_list, heap, profile_config, indent_size, ErrorCodes>>

\* the environment: a config file of the profile store is removed while the
\* call is under way
RemoveProfile ==
    /\ pc \in {"parse", "load", "register"}
    /\ \E name \in store : store' = store \ {name}
    /\ UNCHANGED <<pc, yaml_text, profile, fail_fast, parse_result, load_result,
                   registry, errors, warnings, result, raised, calls, document, rule,
                   path, out,
                   issue_list, heap, profile_config, indent_size, ErrorCodes>>

Next ==
    \/ CheckProfile
    \/ Parse
    \/ Load
    \/ Register
    \/ RunCore
    \/ RunProfile
    \/ RemoveProfile

Spec == Init /\ [][Next]_vars

(***************************************************************************)
(* Claims about validate_yaml_schema, checked under Spec.                  *)
(***************************************************************************)
Returned == pc = "done" /\ raised = ""

ParseFailed == Called("parse_yaml") /\ ~parse_result.success

\* C1: every ValidationResult the call returns, on every return path, has
\* success true exactly when its errors list is empty; warnings do not count.
C1_SuccessIffNoErrors ==
    Returned => (result.success <=> result.errors = <<>>)

C1_Witness ==
    Returned /\ result.success /\ result.warnings # <<>> /\ result.errors = <<>>

\* C2: once parse_yaml has failed or load_yaml_to_models has returned errors
\* the call has returned: no registry was built, no validate was invoked, and
\* the result holds the one parse error, or the load errors, and no warning.
C2_FatalPhasesShortCircuit ==
    (ParseFailed \/ load_result.errors # <<>>) =>
        /\ Returned
        /\ registry = None
        /\ ~Called("RuleRegistry") /\ ~Called("validate")
        /\ result.success = FALSE
        /\ result.warnings = <<>>
        /\ IF ParseFailed
           THEN Len(result.errors) = 1 /\ result.errors = parse_result.error
           ELSE result.errors = load_result.errors

C2_Witness ==
    Returned /\ ~ParseFailed /\ Len(load_result.errors) >= 2
    /\ result.errors = load_result.errors

\* the 1-based number of the first line holding a tab: one more than the
\* number of line ends before the first tab
FirstTabLine(text) ==
    LET k == CHOOSE k \in 1..Len(text) :
                text[k] = "t" /\ \A j \in 1..(k - 1) : text[j] # "t"
    IN 1 + Cardinality({j \in 1..(k - 1) : text[j] = "n"})

C4_ProfileNotFoundBeforeParsing ==
    raised = "ProfileNotFoundError" => ~Called("parse_yaml")

CoreErrorCodes ==
    {GROUP_PROMPT_NO_INSTRUCTIONS, FIELD_NO_PROMPT, FIELD_NO_IDENTIFIERS,
     FIELD_EMPTY_IDENTIFIERS, FIELD_NO_TYPE}

\* the core errors the result reports for field f of group g
FieldErrors(g, f) ==
    SelectSeq(result.errors,
        LAMBDA x : IsPrefix(<<g, "fields", f>>, x.path) /\ x.code \in CoreErrorCodes)

Codes(issues) == [i \in 1..Len(issues) |-> issues[i].code]

\* the fields of the loaded model, as pairs <<group, field>>
ModelFields ==
    {<<e.path[1], e.path[3]>> :
        e \in {x \in Range(Model(load_result)) :
                  Len(x.path) = 3 /\ x.path[2] = "fields"}}

Loaded == Returned /\ load_result.model # None

\* C7, as the specification has it: every field of a loaded document with
\* neither identifiers nor type, with or without a prompt, yields exactly two
\* core errors for that field, one for the identifiers and one for the type.
C7_TwoErrorsForEveryField ==
    Loaded =>
        \A gf \in ModelFields :
            LET m == Model(load_result)
                p == <<gf[1], "fields", gf[2], "prompt">>
            IN (IsNone(m, p \o <<"identifiers">>) /\ IsNone(m, p \o <<"type">>)) =>
                /\ Len(FieldErrors(gf[1], gf[2])) = 2
                /\ Range(Codes(FieldErrors(gf[1], gf[2])))
                      = {FIELD_NO_IDENTIFIERS, FIELD_NO_TYPE}

\* C7, as the rules have it: a field whose prompt is present and has neither
\* identifiers nor type yields exactly two core errors for that field,
\* FIELD_NO_IDENTIFIERS and FIELD_NO_TYPE; a field with no prompt yields
\* exactly one, FIELD_NO_PROMPT.
C7_TwoErrorsForFieldWithPrompt ==
    Loaded =>
        \A gf \in ModelFields :
            LET m == Model(load_result)
                p == <<gf[1], "fields", gf[2], "prompt">>
            IN /\ (~IsNone(m, p) /\ IsNone(m, p \o <<"identifiers">>)
                   /\ IsNone(m, p \o <<"type">>)) =>
                      Codes(FieldErrors(gf[1], gf[2]))
                         = <<FIELD_NO_IDENTIFIERS, FIELD_NO_TYPE>>
               /\ IsNone(m, p) =>
                      Codes(FieldErrors(gf[1], gf[2])) = <<FIELD_NO_PROMPT>>

C7_Witness ==
    /\ Loaded
    /\ \E gf \in ModelFields :
          /\ ~IsNone(Model(load_result), <<gf[1], "fields", gf[2], "prompt">>)
          /\ Codes(FieldErrors(gf[1], gf[2])) = <<FIELD_NO_IDENTIFIERS, FIELD_NO_TYPE>>

\* C10: load_yaml_to_models returns, for every input, either a model holding
\* every top-level group and no error, or no model and at least one error.
C10_LoadAllOrNothing ==
    Called("load_yaml_to_models") =>
        /\ load_result.raised = ""
        /\ \/ /\ load_result.model # None
              /\ load_result.errors = <<>>
              /\ \A e \in Range(Kids(parse_result.data.entries, <<>>)) :
                    Has(Model(load_result), e.path)
           \/ /\ load_result.model = None
              /\ load_result.errors # <<>>

(***************************************************************************)
(* The registry on its own: rules are registered one by one and then run.  *)
(* The registered rules are test rules whose validate raises or returns    *)
(* given issues; the id of a rule is its list and its position in it.      *)
(***************************************************************************)
Digits == <<"1", "2", "3", "4", "5", "6", "7", "8", "9">>

ProfileNames == {"p", "q"}

\* what the validate of a test rule does: raise, or return 0, 1 or 2 issues
StubRule(id, behaviour) ==
    CASE behaviour = "raises" -> Stub(id, "boom", <<>>)
      [] behaviour = "silent" -> Stub(id, "", <<>>)
      [] behaviour = "one" ->
            Stub(id, "", <<create_error(id, <<"first">>, <<>>, None, <<>>)>>)
      [] behaviour = "two" ->
            Stub(id, "", <<create_warning(id, <<"first">>, <<>>, None, <<>>),
                           create_error(id, <<"second">>, <<>>, None, <<>>)>>)

Behaviours == {"raises", "silent", "one", "two"}

ProfileRulesOf(reg, name) ==
    IF name \in DOMAIN reg.profile_rules THEN reg.profile_rules[name] ELSE <<>>

Registered(reg) ==
    Len(reg.core_rules) + Len(ProfileRulesOf(reg, "p")) + Len(ProfileRulesOf(reg, "q"))

InitRegistry ==
    /\ pc = "registry"
    /\ registry = Some(RuleRegistry)
    /\ yaml_text = <<>>
    /\ profile = ""
    /\ fail_fast = FALSE
    /\ store = {}
    /\ parse_result = NoParse
    /\ load_result = NoLoad
    /\ errors = <<>>
    /\ warnings = <<>>
    /\ result = NoResult
    /\ raised = ""
    /\ calls = <<>>
    /\ document = <<>>
    /\ rule = NoRule
    /\ path = <<>>
    /\ out = <<>>
    /\ issue_list = <<>>
    /\ heap = Heap
    /\ profile_config = NoConfig
    /\ indent_size = 2
    /\ ErrorCodes = validation_result

\* registry.register_core(rule)
AddCore ==
    /\ pc = "registry"
    /\ Registered(registry[1]) < MaxRules
    /\ \E b \in Behaviours :
          LET id == "c" \o Digits[Len(registry[1].core_rules) + 1]
          IN registry' = Some(register_core(registry[1], StubRule(id, b)))
    /\ UNCHANGED <<pc, yaml_text, profile, fail_fast, store, parse_result,
                   load_result, errors, warnings, result, raised, calls, document,
                   rule, path, out,
                   issue_list, heap, profile_config, indent_size, ErrorCodes>>

\* registry.register_profile(profile_name, rule)
AddProfile ==
    /\ pc = "registry"
    /\ Registered(registry[1]) < MaxRules
    /\ \E name \in ProfileNames, b \in Behaviours :
          LET id == name \o Digits[Len(ProfileRulesOf(registry[1], name)) + 1]
          IN registry' = Some(register_profile_rule(registry[1], name, StubRule(id, b)))
    /\ UNCHANGED <<pc, yaml_text, profile, fail_fast, store, parse_result,
                   load_result, errors, warnings, result, raised, calls, document,
                   rule, path, out,
                   issue_list, heap, profile_config, indent_size, ErrorCodes>>

Ran(op, run) == [op |-> op, run |-> run]

\* registry.run_core_rules(model, line_map)
CallRunCore ==
    /\ pc = "registry"
    /\ out' = Ran("run_core_rules",
                  run_core_rules(registry[1], <<>>, Ctx(<<>>, <<>>)))
    /\ pc' = "ran"
    /\ UNCHANGED <<yaml_text, profile, fail_fast, store, parse_result,
                   load_result, registry, errors, warnings, result, raised, calls,
                   document, rule, path,
                   issue_list, heap, profile_config, indent_size, ErrorCodes>>

\* registry.run_profile_rules(profile_name, model, line_map)
CallRunProfile ==
    /\ pc = "registry"
    /\ \E name \in ProfileNames :
          /\ profile' = name
          /\ out' = Ran("run_profile_rules",
                        run_profile_rules(registry[1], name, <<>>, Ctx(<<>>, <<>>)))
    /\ pc' = "ran"
    /\ UNCHANGED <<yaml_text, fail_fast, store, parse_result,
                   load_result, registry, errors, warnings, result, raised, calls,
                   document, rule, path,
                   issue_list, heap, profile_config, indent_size, ErrorCodes>>

\* registry.run_all(model, line_map, profile_name), "" for no profile name
CallRunAll ==
    /\ pc = "registry"
    /\ \E name \in ProfileNames \cup {""} :
          /\ profile' = name
          /\ out' = Ran("run_all",
                        run_all(registry[1], <<>>, Ctx(<<>>, <<>>), name))
    /\ pc' = "ran"
    /\ UNCHANGED <<yaml_text, fail_fast, store, parse_result,
                   load_result, registry, errors, warnings, result, raised, calls,
                   document, rule, path,
                   issue_list, heap, profile_config, indent_size, ErrorCodes>>

NextRegistry ==
    \/ AddCore
    \/ AddProfile
    \/ CallRunCore
    \/ CallRunProfile
    \/ CallRunAll

SpecRegistry == InitRegistry /\ [][NextRegistry]_vars

\* how many issues a rule contributes to a run
Contribution(r) == IF r.exc # "" THEN 1 ELSE Len(r.issues)

RECURSIVE Offset(_, _)
Offset(rules, i) ==
    IF i <= 1 THEN 0 ELSE Offset(rules, i - 1) + Contribution(rules[i - 1])

\* the rules a finished run_core_rules or run_profile_rules went through
RulesRun ==
    IF out.op = "run_core_rules" THEN registry[1].core_rules
    ELSE ProfileRulesOf(registry[1], profile)

\* C5: run_core_rules and run_profile_rules invoke every registered rule and
\* return, in registration order, the issues of each rule that returned and,
\* for each rule that raised, exactly one error with the internal-failure
\* code whose message holds the id of the rule and the exception text.
C5_RulesIsolatedInOrder ==
    (pc = "ran" /\ out.op \in {"run_core_rules", "run_profile_rules"}) =>
        LET rules == RulesRun
            got == out.run.issues
        IN /\ out.run.invoked = [i \in 1..Len(rules) |-> rules[i].id]
           /\ Len(got) = Offset(rules, Len(rules) + 1)
           /\ \A i \in 1..Len(rules) :
                LET at == Offset(rules, i) IN
                IF rules[i].exc # ""
                THEN /\ got[at + 1].severity = "error"
                     /\ got[at + 1].code = INTERNAL_FAILURE
                     /\ rules[i].id \in Range(got[at + 1].message)
                     /\ rules[i].exc \in Range(got[at + 1].message)
                ELSE SubSeq(got, at + 1, at + Contribution(rules[i])) = rules[i].issues

C5_Witness ==
    /\ pc = "ran" /\ out.op = "run_core_rules"
    /\ Len(registry[1].core_rules) = 3
    /\ registry[1].core_rules[1].issues # <<>>
    /\ registry[1].core_rules[2].exc # ""
    /\ registry[1].core_rules[3].issues # <<>>
    /\ Len(out.run.issues) >= 3

\* the rule an issue of a run comes from
Origin(issue) ==
    IF issue.code = INTERNAL_FAILURE THEN issue.message[2] ELSE issue.code

Origins(rules) ==
    Concat([i \in 1..Len(rules) |-> [k \in 1..Contribution(rules[i]) |-> rules[i].id]])

\* C6: run_all returns the issues of the core rules, rule by rule in
\* registration order, followed by those of the rules of the named profile
\* in registration order, and nothing after the core issues when no profile
\* name is given or the registry has no rule under the name.
C6_RunAllCoreThenProfile ==
    (pc = "ran" /\ out.op = "run_all") =>
        [i \in 1..Len(out.run.issues) |-> Origin(out.run.issues[i])]
            = Origins(registry[1].core_rules)
              \o (IF profile = "" THEN <<>>
                  ELSE Origins(ProfileRulesOf(registry[1], profile)))

C6_Witness ==
    /\ pc = "ran" /\ out.op = "run_all" /\ profile = "p"
    /\ Len(registry[1].core_rules) = 2
    /\ registry[1].core_rules[1].issues # <<>>
    /\ registry[1].core_rules[2].issues # <<>>
    /\ Len(ProfileRulesOf(registry[1], "p")) = 1
    /\ ProfileRulesOf(registry[1], "p")[1].issues # <<>>
    /\ Len(out.run.issues) >= 3

(***************************************************************************)
(* One profile rule on its own: RequiredFieldsRule is constructed with a   *)
(* group name and a set of required field names and applied to the model   *)
(* of a document that loaded.                                              *)
(***************************************************************************)
FieldNames == {"charges", "meters", "usage"}

\* the result of parse_yaml for a text that decodes to a mapping
Parsed(tree) ==
    ParseResult(TRUE, [top |-> "map", entries |-> convert_to_plain_dict(tree)],
                build_line_map(tree), None)

LoadedTrees ==
    {t \in {Numbered(u) : u \in Trees} :
        LET lr == load_yaml_to_models(Parsed(t).data, Parsed(t).line_map)
        IN lr.raised = "" /\ lr.model # None}

InitRule ==
    /\ pc = "rule"
    /\ document \in LoadedTrees
    /\ parse_result = Parsed(document)
    /\ load_result = load_yaml_to_models(parse_result.data, parse_result.line_map)
    /\ \E g \in {"statement", "other"}, required_fields \in SUBSET FieldNames :
          rule = RequiredFieldsRuleInit(g, required_fields)
    /\ registry = None
    /\ yaml_text = <<>>
    /\ profile = ""
    /\ fail_fast = FALSE
    /\ store = {}
    /\ errors = <<>>
    /\ warnings = <<>>
    /\ result = NoResult
    /\ raised = ""
    /\ calls = <<>>
    /\ path = <<>>
    /\ out = <<>>
    /\ issue_list = <<>>
    /\ heap = Heap
    /\ profile_config = NoConfig
    /\ indent_size = 2
    /\ ErrorCodes = validation_result

\* rule.validate(model, line_map)
ApplyRule ==
    /\ pc = "rule"
    /\ out' = validate(rule, Model(load_result), parse_result.line_map, <<>>).issues
    /\ pc' = "applied"
    /\ UNCHANGED <<yaml_text, profile, fail_fast, store, parse_result,
                   load_result, registry, errors, warnings, result, raised, calls,
                   document, rule, path,
                   issue_list, heap, profile_config, indent_size, ErrorCodes>>

NextRule == ApplyRule

SpecRule == InitRule /\ [][NextRule]_vars

\* the line of the key at a path of the document
LineOf(tree, p) ==
    LET e == CHOOSE e \in Range(tree) : e.path = p IN e.line

\* C8: RequiredFieldsRule(group, required) applied to a model whose group has
\* a fields mapping emits exactly one error per name of required that is not
\* a field of the group and none for the others, in ascending order of name,
\* each with path [group, "fields", name] and the line of the group's fields.
C8_OneErrorPerMissingField ==
    pc = "applied" =>
        \A g \in {"statement", "other"}, required_fields \in SUBSET FieldNames :
            (/\ rule = RequiredFieldsRuleInit(g, required_fields)
             /\ Has(Model(load_result), <<g, "fields">>)
             /\ KindAt(Model(load_result), <<g, "fields">>) = "map") =>
                LET present == {e.path[3] : e \in {x \in Range(document) :
                                    Len(x.path) = 3 /\ x.path[1] = g /\ x.path[2] = "fields"}}
                    missing == required_fields \ present
                IN /\ Len(out) = Cardinality(missing)
                   /\ {out[i].path[3] : i \in 1..Len(out)} = missing
                   /\ \A i \in 1..Len(out) :
                        /\ out[i].severity = "error"
                        /\ out[i].code = PROFILE_MISSING_REQUIRED_FIELD
                        /\ out[i].path = <<g, "fields", out[i].path[3]>>
                        /\ out[i].line = Some(LineOf(document, <<g, "fields">>))
                        /\ \A j \in 1..(i - 1) : Rank(out[j].path[3]) < Rank(out[i].path[3])

(***************************************************************************)
(* The line map on its own: it is built from a document whose keys can     *)
(* hold a "." and looked up at a path.                                     *)
(***************************************************************************)
Segments == {"a", "b", "a.b"}

Paths == UNION {[1..k -> Segments] : k \in 1..2}

\* the keys of a two-level document in document order, one key per line:
\* every nested key follows its parent key, with only keys of the same
\* parent in between
KeyLists ==
    {s \in UNION {[1..k -> Paths] : k \in 0..MaxKeys} :
        /\ \A i, j \in 1..Len(s) : i # j => s[i] # s[j]
        /\ \A i \in 1..Len(s) :
              Len(s[i]) = 2 =>
                 \E j \in 1..(i - 1) :
                    /\ s[j] = <<s[i][1]>>
                    /\ \A k \in (j + 1)..(i - 1) : Len(s[k]) = 2}

KeyTree(s) ==
    [i \in 1..Len(s) |->
        [path |-> s[i],
         kind |-> IF \E j \in 1..Len(s) : Len(s[j]) = 2 /\ s[j][1] = s[i][1] /\ Len(s[i]) = 1
                  THEN "map" ELSE "scalar",
         strkey |-> TRUE, line |-> i]]

InitLineMap ==
    /\ pc = "line_map"
    /\ \E s \in KeyLists : document = KeyTree(s)
    /\ path \in Paths
    /\ parse_result = Parsed(document)
    /\ load_result = NoLoad
    /\ rule = NoRule
    /\ registry = None
    /\ yaml_text = <<>>
    /\ profile = ""
    /\ fail_fast = FALSE
    /\ store = {}
    /\ errors = <<>>
    /\ warnings = <<>>
    /\ result = NoResult
    /\ raised = ""
    /\ calls = <<>>
    /\ out = <<>>
    /\ issue_list = <<>>
    /\ heap = Heap
    /\ profile_config = NoConfig
    /\ indent_size = 2
    /\ ErrorCodes = validation_result

\* get_line_for_path(line_map, path)
Lookup ==
    /\ pc = "line_map"
    /\ out' = get_line_for_path(parse_result.line_map, path)
    /\ pc' = "looked"
    /\ UNCHANGED <<yaml_text, profile, fail_fast, store, parse_result,
                   load_result, registry, errors, warnings, result, raised, calls,
                   document, rule, path,
                   issue_list, heap, profile_config, indent_size, ErrorCodes>>

NextLineMap == Lookup

SpecLineMap == InitLineMap /\ [][NextLineMap]_vars

\* the line of the key at the path, else of its nearest ancestor key
RECURSIVE OwnOrAncestorLine(_, _, _)
OwnOrAncestorLine(tree, p, i) ==
    IF i < 1 THEN None
    ELSE IF \E e \in Range(tree) : e.path = SubSeq(p, 1, i)
    THEN Some(LineOf(tree, SubSeq(p, 1, i)))
    ELSE OwnOrAncestorLine(tree, p, i - 1)

\* C9: get_line_for_path returns the line of the key at the path when the
\* document has one, otherwise the line of the key at its longest proper
\* prefix that has one, otherwise none: never the line of an unrelated key.
C9_LineOfPathOrAncestor ==
    pc = "looked" => out = OwnOrAncestorLine(document, path, Len(path))

(***************************************************************************)
(* The auto-fixer (src/src/fixer/auto_fixer.py).  A text given to the      *)
(* fixer is a sequence over FixChars: "t" is a tab, "n" a line feed, "s" a *)
(* space and "R" the characters "required:".  A change is the kind of the  *)
(* change and its line, for the sentence the code builds from them.        *)
(***************************************************************************)
FixChars == {"t", "n", "s", "R"}

FixTexts == UNION {[1..k -> FixChars] : k \in 0..MaxText}

\* line.replace('\t', '  ')
RECURSIVE ReplaceTabs(_)
ReplaceTabs(line) ==
    IF line = <<>> THEN <<>>
    ELSE (IF Head(line) = "t" THEN <<"s", "s">> ELSE <<Head(line)>>)
         \o ReplaceTabs(Tail(line))

\* '\n'.join(lines)
RECURSIVE JoinLines(_)
JoinLines(lines) ==
    IF lines = <<>> THEN <<>>
    ELSE IF Len(lines) = 1 THEN lines[1]
    ELSE lines[1] \o <<"n">> \o JoinLines(Tail(lines))

Change(what, line) == [what |-> what, line |-> line]

Fixed(text, changes) == [fixed_yaml |-> text, changes |-> changes]

fix_all_tabs(yaml_text_) ==
    LET lines == splitlines(yaml_text_)
        tabbed == SelectSeq([i \in 1..Len(lines) |-> i],
                            LAMBDA i : "t" \in Range(lines[i]))
    IN Fixed(JoinLines([i \in 1..Len(lines) |-> ReplaceTabs(lines[i])]),
             [k \in 1..Len(tabbed) |-> Change("Replaced tabs with spaces", tabbed[k])])

\* del lines[line_idx]
DelLine(lines, k) == SubSeq(lines, 1, k - 1) \o SubSeq(lines, k + 1, Len(lines))

\* "if issue.line and 0 < issue.line <= len(lines)" and the line holds the
\* characters of token: the line is deleted, else nothing is done
RemoveLine(text, issue, token, what) ==
    LET lines == splitlines(text) IN
    IF issue.line # None /\ issue.line[1] # 0
       /\ 0 < issue.line[1] /\ issue.line[1] <= Len(lines)
       /\ token \in Range(lines[issue.line[1]])
    THEN Fixed(JoinLines(DelLine(lines, issue.line[1])),
               <<Change(what, issue.line[1])>>)
    ELSE Fixed(text, <<>>)

\* f"{attr_name}:" in the characters of a text
AttrToken(attr_name) == IF attr_name = "required" THEN "R" ELSE "none"

fix_ignored_group_attrs(text, issue) ==
    IF Len(issue.path) < 3 THEN Fixed(text, <<>>)
    ELSE RemoveLine(text, issue, AttrToken(issue.path[Len(issue.path)]),
                    "Removed ignored attribute from group prompt")

fix_required_attr(text, issue) ==
    RemoveLine(text, issue, "R", "Removed ignored 'required' attribute")

\* FIXABLE_CODES: the method named for a code, "" for a code that is not fixable
FIXABLE_CODES(code) ==
    CASE code = YAML_TAB_ERROR -> "_fix_tabs"
      [] code = YAML_INDENT_ERROR -> "_fix_indentation"
      [] code = GROUP_PROMPT_IGNORED_ATTRS -> "_fix_ignored_group_attrs"
      [] code = FIELD_REQUIRED_IGNORED -> "_fix_required_attr"
      [] OTHER -> ""

\* the methods AutoFixer defines among those FIXABLE_CODES names
FixMethods == {"_fix_ignored_group_attrs", "_fix_required_attr"}

FixResult(text, changes, unfixable, exc) ==
    [fixed_yaml |-> text, changes |-> changes, unfixable |-> unfixable,
     raised |-> exc]

\* "for issue in issues:" of fix; getattr raises for a method AutoFixer lacks
RECURSIVE FixLoop(_, _, _)
FixLoop(todo, i, acc) ==
    IF i > Len(todo) THEN acc
    ELSE LET issue == todo[i]
             method == FIXABLE_CODES(issue.code)
         IN IF issue.code = YAML_TAB_ERROR THEN FixLoop(todo, i + 1, acc)
            ELSE IF method = ""
            THEN FixLoop(todo, i + 1,
                    [acc EXCEPT !.unfixable = Append(@, issue)])
            ELSE IF method \notin FixMethods
            THEN [acc EXCEPT !.raised = "AttributeError"]
            ELSE LET r == IF method = "_fix_ignored_group_attrs"
                          THEN fix_ignored_group_attrs(acc.fixed_yaml, issue)
                          ELSE fix_required_attr(acc.fixed_yaml, issue)
                 IN FixLoop(todo, i + 1,
                        [acc EXCEPT !.fixed_yaml = r.fixed_yaml,
                                    !.changes = @ \o r.changes])

\* AutoFixer.fix(yaml_text, issues)
fix(text, todo) ==
    LET tabs == fix_all_tabs(text) IN
    FixLoop(todo, 1, FixResult(tabs.fixed_yaml, tabs.changes, <<>>, ""))

\* the issues the fixer is given: warnings of the two ignored-attribute rules
\* with any line, and one issue each of a code with no fix, of the
\* indentation code and of the tab code
FixIssues ==
    {create_warning(FIELD_REQUIRED_IGNORED, <<"required is ignored">>,
        <<"statement", "fields", "meters", "prompt", "required">>, l, <<>>) :
            l \in {None} \cup {Some(k) : k \in 1..MaxText}}
    \cup {create_warning(GROUP_PROMPT_IGNORED_ATTRS, <<"attribute is ignored">>,
        <<"statement", "prompt", "required">>, l, <<>>) :
            l \in {None} \cup {Some(k) : k \in 1..MaxText}}
    \cup {create_error(FIELD_NO_TYPE, <<"Field is missing type">>,
              <<"statement", "fields", "meters", "prompt", "type">>, Some(1), <<>>),
          create_error(YAML_INDENT_ERROR, <<"yaml error">>, <<>>, Some(1), <<>>),
          create_error(YAML_TAB_ERROR, <<"Tab character found">>, <<>>, Some(1), <<>>)}

IssueLists ==
    {<<>>} \cup {<<a>> : a \in FixIssues} \cup {<<a, b>> : a, b \in FixIssues}

InitFixer ==
    /\ pc = "fixer"
    /\ yaml_text \in FixTexts
    /\ issue_list \in IssueLists
    /\ document = <<>>
    /\ parse_result = NoParse
    /\ load_result = NoLoad
    /\ rule = NoRule
    /\ registry = None
    /\ profile = ""
    /\ fail_fast = FALSE
    /\ store = {}
    /\ errors = <<>>
    /\ warnings = <<>>
    /\ result = NoResult
    /\ raised = ""
    /\ calls = <<>>
    /\ path = <<>>
    /\ out = <<>>
    /\ heap = Heap
    /\ profile_config = NoConfig
    /\ indent_size = 2
    /\ ErrorCodes = validation_result

\* fixer.fix_tabs_only(yaml_text), and again on the text it returned
FixTabsOnly ==
    /\ pc \in {"fixer", "tabs fixed"}
    /\ issue_list = <<>>
    /\ out' = Append(out, fix_all_tabs(IF out = <<>> THEN yaml_text
                                       ELSE out[Len(out)].fixed_yaml))
    /\ pc' = IF pc = "fixer" THEN "tabs fixed" ELSE "tabs fixed twice"
    /\ UNCHANGED <<yaml_text, profile, fail_fast, store, parse_result,
                   load_result, registry, errors, warnings, result, raised, calls,
                   document, rule, path, issue_list, heap, profile_config, indent_size, ErrorCodes>>

\* fixer.fix(yaml_text, issues)
Fix ==
    /\ pc = "fixer"
    /\ out' = <<fix(yaml_text, issue_list)>>
    /\ raised' = out'[1].raised
    /\ pc' = "fixed"
    /\ UNCHANGED <<yaml_text, profile, fail_fast, store, parse_result,
                   load_result, registry, errors, warnings, result, calls,
                   document, rule, path, issue_list, heap, profile_config, indent_size, ErrorCodes>>

NextFixer ==
    \/ FixTabsOnly
    \/ Fix

SpecFixer == InitFixer /\ [][NextFixer]_vars

\* C11: a tab fix of the text a first tab fix returned reports no change and
\* returns that text as it is; the text a tab fix returns holds no tab.
C11_TabFixIdempotent ==
    pc = "tabs fixed twice" =>
        /\ "t" \notin Range(out[1].fixed_yaml)
        /\ out[2].changes = <<>>
        /\ out[2].fixed_yaml = out[1].fixed_yaml

IgnoredCodes == {GROUP_PROMPT_IGNORED_ATTRS, FIELD_REQUIRED_IGNORED}

\* lines without the empty lines at their end
RECURSIVE Trim(_)
Trim(lines) ==
    IF lines # <<>> /\ lines[Len(lines)] = <<>>
    THEN Trim(SubSeq(lines, 1, Len(lines) - 1))
    ELSE lines

\* the lines of a text, each tab as two spaces
TabFreeLines(text) ==
    [i \in 1..Len(splitlines(text)) |-> ReplaceTabs(splitlines(text)[i])]

\* the line an issue reports holds the attribute of the issue
OnItsLine(text, issue) ==
    /\ issue.line # None
    /\ issue.line[1] \in 1..Len(splitlines(text))
    /\ "R" \in Range(splitlines(text)[issue.line[1]])

\* C12: fix, given one issue of an ignored-attribute code whose line is
\* unknown, outside the text or without the attribute, removes no line (the
\* lines are compared up to empty lines at the end of the text) and returns
\* the issue in unfixable.
C12_UnfixedIssueIsReported ==
    (/\ pc = "fixed" /\ Len(issue_list) = 1
     /\ issue_list[1].code \in IgnoredCodes
     /\ ~OnItsLine(yaml_text, issue_list[1])) =>
        /\ out[1].raised = ""
        /\ Trim(splitlines(out[1].fixed_yaml)) = Trim(TabFreeLines(yaml_text))
        /\ out[1].unfixable = issue_list

\* the lines of a text without those numbered in a set
Remaining(lines, gone) ==
    SelectSeq([i \in 1..Len(lines) |-> IF i \in gone THEN <<"n">> ELSE lines[i]],
              LAMBDA l : l # <<"n">>)

\* C13: fix, given ignored-attribute issues for distinct lines of the text,
\* each line holding its attribute, deletes exactly those lines (the lines
\* are compared up to empty lines at the end of the text), in whatever order
\* the issues are listed.
C13_DeletesExactlyReportedLines ==
    (/\ pc = "fixed"
     /\ \A i \in 1..Len(issue_list) :
           /\ issue_list[i].code \in IgnoredCodes
           /\ OnItsLine(yaml_text, issue_list[i])
           /\ \A j \in 1..(i - 1) : issue_list[j].line # issue_list[i].line) =>
        Trim(splitlines(out[1].fixed_yaml))
           = Trim(Remaining(TabFreeLines(yaml_text),
                            {issue_list[i].line[1] : i \in 1..Len(issue_list)}))

(***************************************************************************)
(* Two calls of validate_yaml_schema under way at once in one process      *)
(* (threads), from the point where each has loaded its document.  Every    *)
(* local of a call is indexed by the call; heap holds the RuleRegistry     *)
(* objects of the process, reference 0 being _global_registry.  The        *)
(* statements of the two calls interleave; an import of a module that      *)
(* uses the registration decorators may run in between.                    *)
(***************************************************************************)
Calls == {1, 2}

Both(x) == [c \in Calls |-> x]

\* documents that load: one without issues, one with core errors and
\* warnings, one that only the profile objects to
ConcurrentDocs ==
    {Numbered(GroupTree("statement", TRUE,
        G("map", NoPrompt,
          Fields("map", <<<<"meters", Complete>>, <<"charges", Complete>>>>), ""))),
     Numbered(GroupTree("statement", TRUE,
        G("map", P("strs", "absent", "str", "bool"),
          Fields("map", <<<<"meters", Bare>>>>), ""))),
     Numbered(GroupTree("other", TRUE, Minimal))}

\* the rule a decorated class adds to the global registry
Decorated ==
    Stub("GXVAL900", "", <<create_error("GXVAL900", <<"decorated">>, <<>>, None, <<>>)>>)

\* a registry taken from get_global_registry()
AllocGlobal(h) == 0

\* "RuleRegistry()": the reference of a new object
Alloc(h) == CHOOSE r \in 1..(Cardinality(DOMAIN h) + 1) : r \notin DOMAIN h

InitConcurrent ==
    /\ pc = Both("new")
    /\ document \in [Calls -> ConcurrentDocs]
    /\ parse_result = [c \in Calls |-> Parsed(document[c])]
    /\ load_result = [c \in Calls |->
            load_yaml_to_models(parse_result[c].data, parse_result[c].line_map)]
    /\ profile \in [Calls -> {"", "statement_only"}]
    /\ fail_fast \in [Calls -> BOOLEAN]
    /\ registry = Both(None)
    /\ errors = Both(<<>>)
    /\ warnings = Both(<<>>)
    /\ result = Both(NoResult)
    /\ calls = Both(<<>>)
    /\ heap = Heap
    /\ profile_config = NoConfig
    /\ indent_size = 2
    /\ ErrorCodes = validation_result
    /\ store = KnownProfiles
    /\ yaml_text = <<>>
    /\ raised = ""
    /\ rule = NoRule
    /\ path = <<>>
    /\ out = <<>>
    /\ issue_list = <<>>

\* "registry = RuleRegistry()"
NewRegistry(c) ==
    /\ pc[c] = "new"
    /\ LET ref == Alloc(heap) IN
        /\ heap' = [r \in DOMAIN heap \cup {ref} |->
                        IF r \in DOMAIN heap THEN heap[r] ELSE RuleRegistry]
        /\ registry' = [registry EXCEPT ![c] = Some(ref)]
    /\ pc' = [pc EXCEPT ![c] = "core rules"]
    /\ UNCHANGED <<yaml_text, profile, fail_fast, store, parse_result, load_result,
                   errors, warnings, result, raised, calls, document, rule, path,
                   out, issue_list, profile_config, indent_size, ErrorCodes>>

\* "register_core_rules(registry)"
RegisterCoreRules(c) ==
    /\ pc[c] = "core rules"
    /\ heap' = [heap EXCEPT ![registry[c][1]] = register_core_rules(@)]
    /\ pc' = [pc EXCEPT ![c] = IF profile[c] # "" THEN "profile rules" ELSE "core"]
    /\ UNCHANGED <<yaml_text, profile, fail_fast, store, parse_result, load_result,
                   registry, errors, warnings, result, raised, calls, document, rule,
                   path, out, issue_list, profile_config, indent_size, ErrorCodes>>

\* "if profile: register_profile(registry, profile)"
RegisterProfile(c) ==
    /\ pc[c] = "profile rules"
    /\ heap' = [heap EXCEPT ![registry[c][1]] =
                    register_profile(@, profile[c], store).registry]
    /\ pc' = [pc EXCEPT ![c] = "core"]
    /\ UNCHANGED <<yaml_text, profile, fail_fast, store, parse_result, load_result,
                   registry, errors, warnings, result, raised, calls, document, rule,
                   path, out, issue_list, profile_config, indent_size, ErrorCodes>>

\* phase 3 of call c, and its fail-fast exit
RunCoreRules(c) ==
    /\ pc[c] = "core"
    /\ LET run == run_core_rules(heap[registry[c][1]], Model(load_result[c]),
                                 Ctx(parse_result[c].line_map, <<>>))
           errs == errors[c] \o Errors(run.issues)
           warns == warnings[c] \o NonErrors(run.issues)
       IN /\ errors' = [errors EXCEPT ![c] = errs]
          /\ warnings' = [warnings EXCEPT ![c] = warns]
          /\ calls' = [calls EXCEPT ![c] = @ \o Validations(run.invoked)]
          /\ IF FailFastExit(fail_fast[c], errs, warns)
             THEN /\ pc' = [pc EXCEPT ![c] = "done"]
                  /\ result' = [result EXCEPT ![c] = ValidationResult(FALSE, errs, warns)]
             ELSE /\ pc' = [pc EXCEPT ![c] = "profile"]
                  /\ UNCHANGED result
    /\ UNCHANGED <<yaml_text, profile, fail_fast, store, parse_result, load_result,
                   registry, raised, document, rule, path, out, issue_list, heap,
                   profile_config, indent_size, ErrorCodes>>

\* phase 4 of call c and its result
RunProfileRules(c) ==
    /\ pc[c] = "profile"
    /\ \E order \in Orders :
        LET run == IF profile[c] # ""
                   THEN run_profile_rules(heap[registry[c][1]], profile[c],
                            Model(load_result[c]),
                            Ctx(parse_result[c].line_map, order))
                   ELSE Run(<<>>, <<>>)
            errs == errors[c] \o Errors(run.issues)
            warns == warnings[c] \o NonErrors(run.issues)
        IN /\ errors' = [errors EXCEPT ![c] = errs]
           /\ warnings' = [warnings EXCEPT ![c] = warns]
           /\ calls' = [calls EXCEPT ![c] = @ \o Validations(run.invoked)]
           /\ result' = [result EXCEPT ![c] =
                            ValidationResult(Success(errs, warns), errs, warns)]
    /\ pc' = [pc EXCEPT ![c] = "done"]
    /\ UNCHANGED <<yaml_text, profile, fail_fast, store, parse_result, load_result,
                   registry, raised, document, rule, path, out, issue_list, heap,
                   profile_config, indent_size, ErrorCodes>>

\* "@register_core_rule" on a class of a module imported meanwhile
Decorate ==
    /\ heap[0].core_rules = <<>>
    /\ heap' = [heap EXCEPT ![0] = register_core(@, Decorated)]
    /\ UNCHANGED <<pc, yaml_text, profile, fail_fast, store, parse_result,
                   load_result, registry, errors, warnings, result, raised, calls,
                   document, rule, path, out, issue_list, profile_config, indent_size, ErrorCodes>>

NextConcurrent ==
    \/ \E c \in Calls : NewRegistry(c)
    \/ \E c \in Calls : RegisterCoreRules(c)
    \/ \E c \in Calls : RegisterProfile(c)
    \/ \E c \in Calls : RunCoreRules(c)
    \/ \E c \in Calls : RunProfileRules(c)
    \/ Decorate

SpecConcurrent == InitConcurrent /\ [][NextConcurrent]_vars

\* what a call with these inputs returns when nothing else runs
Alone(pr, lr, prof, ff, order) ==
    LET core == register_core_rules(RuleRegistry)
        reg == IF prof # "" THEN register_profile(core, prof, KnownProfiles).registry
               ELSE core
        c == run_core_rules(reg, Model(lr), Ctx(pr.line_map, <<>>)).issues
        p == IF prof # ""
             THEN run_profile_rules(reg, prof, Model(lr), Ctx(pr.line_map, order)).issues
             ELSE <<>>
    IN IF ff /\ Errors(c) # <<>>
       THEN ValidationResult(FALSE, Errors(c), NonErrors(c))
       ELSE ValidationResult(Errors(c \o p) = <<>>, Errors(c \o p), NonErrors(c \o p))

\* C14: calls of validate_yaml_schema that run at once do not interfere: each
\* has a RuleRegistry of its own, which is not the process-wide default
\* registry and not the registry of the other call; the default registry
\* holds only what the decorators put there; and each call returns what the
\* same call returns when it runs alone.
C14_ConcurrentCallsIsolated ==
    /\ heap[0] \in {RuleRegistry, register_core(RuleRegistry, Decorated)}
    /\ \A c \in Calls :
        /\ registry[c] # None =>
            /\ registry[c][1] # 0
            /\ \A d \in Calls \ {c} : registry[d] # registry[c]
        /\ pc[c] = "done" =>
            \E order \in Orders :
                result[c] = Alone(parse_result[c], load_result[c], profile[c],
                                  fail_fast[c], order)

\* both calls returned after their registrations and runs alternated, a
\* decorator having written the default registry in between; one call has
\* the profile and the other has not, and the results differ
C14_Witness ==
    /\ pc = Both("done")
    /\ heap[0] # RuleRegistry
    /\ profile[1] # profile[2]
    /\ document[1] = document[2]
    /\ result[1] # result[2]
    /\ result[1].errors # <<>>

(***************************************************************************)
(* Claims about the rule phases of validate_yaml_schema, checked under     *)
(* Spec.  What the rules find is computed here from the rule classes       *)
(* themselves, not through the registry.                                   *)
(***************************************************************************)
\* the call went past phases 1 and 2 and returned
PassedLoad == Returned /\ registry # None

CoreIds ==
    <<GROUP_PROMPT_NO_INSTRUCTIONS, GROUP_PROMPT_IGNORED_ATTRS, FIELD_NO_PROMPT,
      FIELD_NO_IDENTIFIERS, FIELD_NO_TYPE, FIELD_REQUIRED_IGNORED>>

ProfileIds ==
    <<PROFILE_INVALID_TOP_LEVEL_KEY, PROFILE_MISSING_REQUIRED_FIELD,
      PROFILE_INVALID_FIELDS_TYPE>>

ProfileCodes == Range(ProfileIds) \cup {PROFILE_MISSING_REQUIRED_KEY}

\* the ids of the rules whose validate was called, in order
Validated ==
    LET v == SelectSeq(calls, LAMBDA x : x.op = "validate")
    IN [i \in 1..Len(v) |-> v[i].arg]

CoreIssues ==
    LET m == Model(load_result)
        lm == parse_result.line_map
    IN GroupPromptInstructionsRule(m, lm) \o GroupPromptIgnoredAttrsRule(m, lm)
       \o FieldPromptRequiredRule(m, lm) \o FieldIdentifiersRequiredRule(m, lm)
       \o FieldTypeRequiredRule(m, lm) \o FieldRequiredIgnoredRule(m, lm)

\* the issues of the three rules of statement_only
ProfileIssues(order) ==
    LET m == Model(load_result)
        lm == parse_result.line_map
    IN TopLevelKeysRule(TopLevelKeysRuleInit({"statement"}, {"statement"}), m, lm, order)
       \o RequiredFieldsRule(RequiredFieldsRuleInit("statement", {"meters", "charges"}),
                             m, lm)
       \o FieldsDictTypeRule(FieldsDictTypeRuleInit("statement"), m, lm)

OfSeverity(issues, sevs) == SelectSeq(issues, LAMBDA x : x.severity \in sevs)

ErrorsOf(issues) == OfSeverity(issues, {"error"})

RestOf(issues) == OfSeverity(issues, {"warning", "info"})

C16_ResultPartitionsIssuesInOrder ==
    (PassedLoad /\ ~fail_fast) =>
        \E order \in Orders :
            LET all == CoreIssues
                       \o (IF profile # "" THEN ProfileIssues(order) ELSE <<>>)
            IN /\ result.errors = ErrorsOf(all)
               /\ result.warnings = RestOf(all)
               /\ Len(result.errors) + Len(result.warnings) = Len(all)

\* core errors, core warnings and profile errors in one result
C16_Witness ==
    /\ PassedLoad /\ ~fail_fast /\ profile # ""
    /\ ErrorsOf(CoreIssues) # <<>> /\ RestOf(CoreIssues) # <<>>
    /\ Len(result.errors) > Len(ErrorsOf(CoreIssues))
    /\ result.warnings # <<>>

\* C17: without a profile the result is exactly the issues of the core
\* rules: no profile rule is invoked and no issue has a profile code.  A
\* document that violates only profile constraints succeeds without the
\* profile and fails with it.
C17_NoProfileMeansCoreOnly ==
    PassedLoad =>
        /\ profile = "" =>
            /\ Validated = CoreIds
            /\ \A x \in Range(result.errors \o result.warnings) :
                    x.code \notin ProfileCodes
            /\ result.errors = ErrorsOf(CoreIssues)
            /\ result.warnings = RestOf(CoreIssues)
        /\ (/\ ErrorsOf(CoreIssues) = <<>>
            /\ \A order \in Orders : ErrorsOf(ProfileIssues(order)) # <<>>) =>
                (result.success <=> profile = "")

\* no profile, a document only the profile objects to, success
C17_Witness ==
    /\ PassedLoad /\ profile = ""
    /\ \A order \in Orders : ErrorsOf(ProfileIssues(order)) # <<>>
    /\ result.success
    /\ Validated = CoreIds

\* C18: a text that decodes to nothing (here: a text with no tab and no
\* character other than line ends) fails parsing with one error whose code
\* is the dedicated YAML_EMPTY_ERROR, not the YAML_PARSE_ERROR of the other
\* syntax failures.
C18_EmptyDocumentHasEmptyCode ==
    (/\ Returned
     /\ Called("yaml.load")
     /\ "c" \notin Range(yaml_text)) =>
        /\ ~result.success
        /\ Len(result.errors) = 1
        /\ result.errors[1].code = YAML_EMPTY_ERROR
        /\ result.errors[1].code # YAML_PARSE_ERROR

\* C19: no model that load_yaml_to_models returns has a prompt whose
\* identifiers is an empty list, and no result of validate_yaml_schema holds
\* an issue with the core code for empty identifiers.
C19_NoEmptyIdentifiersPastLoad ==
    /\ (Called("load_yaml_to_models") /\ load_result.model # None) =>
            \A e \in Range(load_result.model[1]) :
                e.path[Len(e.path)] = "identifiers" => e.kind # "elist"
    /\ Returned =>
            \A x \in Range(result.errors \o result.warnings) :
                x.code # FIELD_EMPTY_IDENTIFIERS

\* a document with "identifiers: []" was given to the loader, which returned
\* no model and an error for the identifiers
C19_Witness ==
    /\ Returned
    /\ Called("load_yaml_to_models")
    /\ \E e \in Range(document) : e.kind = "elist"
    /\ load_result.model = None
    /\ \E x \in Range(result.errors) :
            x.code = PYDANTIC_VALIDATION_ERROR /\ "identifiers" \in Range(x.path)

\* the names of the groups of the loaded document
GroupNames == {Key(e) : e \in Range(Groups(Model(load_result)))}

RuleIssues == result.errors \o result.warnings

\* C20, as the specification has it: every issue of a core or profile rule,
\* the missing-key and not-allowed-key errors of TopLevelKeysRule included,
\* has a non-empty path whose first segment is the name of the group it is
\* about.
C20_EveryRuleIssueRootedAtGroup ==
    PassedLoad =>
        \A x \in Range(RuleIssues) : x.path # <<>> /\ x.path[1] \in GroupNames

\* C20, as the rules have it: every issue of a core or profile rule other
\* than the missing-key error of TopLevelKeysRule has a non-empty path whose
\* first segment is the name of a group of the document; the missing-key
\* error has an empty path and no line.
C20_RuleIssuesRootedExceptMissingKey ==
    PassedLoad =>
        \A x \in Range(RuleIssues) :
            IF x.code = PROFILE_MISSING_REQUIRED_KEY
            THEN x.path = <<>> /\ x.line = None
            ELSE x.path # <<>> /\ x.path[1] \in GroupNames

\* one result with a missing-key error, a not-allowed-key error and a core
\* issue
C20_Witness ==
    /\ PassedLoad
    /\ \E x \in Range(RuleIssues) : x.code = PROFILE_MISSING_REQUIRED_KEY
    /\ \E x \in Range(RuleIssues) :
            x.code = PROFILE_INVALID_TOP_LEVEL_KEY /\ x.path = <<"other">>
    /\ \E x \in Range(RuleIssues) : x.code \in Range(CoreIds) /\ Len(x.path) > 1

(***************************************************************************)
(* One TopLevelKeysRule on its own: the rule create_rules_from_config      *)
(* builds from a ProfileConfig with required keys R and allowed keys A is  *)
(* applied to the model of a document that loaded, once in each of two     *)
(* processes: the order in which a Python set of strings is iterated is    *)
(* decided by the hash seed of the process.                                *)
(***************************************************************************)
KeyNames == {"statement", "other", "usage"}

\* the orders in which a process can iterate a set of key names
KeyOrders ==
    {o \in [1..3 -> KeyNames] : \A i, j \in 1..3 : i # j => o[i] # o[j]}

InitKeysRule ==
    /\ pc = "keys rule"
    /\ document \in LoadedTrees
    /\ parse_result = Parsed(document)
    /\ load_result = load_yaml_to_models(parse_result.data, parse_result.line_map)
    /\ \E R \in SUBSET KeyNames, A \in SUBSET KeyNames :
          /\ R \cup A # {}
          /\ profile_config = ProfileConfig(R, A, <<>>)
    /\ rule = create_rules_from_config(profile_config)[1]
    /\ registry = None
    /\ yaml_text = <<>>
    /\ profile = ""
    /\ fail_fast = FALSE
    /\ store = {}
    /\ errors = <<>>
    /\ warnings = <<>>
    /\ result = NoResult
    /\ raised = ""
    /\ calls = <<>>
    /\ path = <<>>
    /\ out = <<>>
    /\ issue_list = <<>>
    /\ heap = Heap
    /\ indent_size = 2
    /\ ErrorCodes = validation_result

\* rule.validate(model, line_map), in one process and in another
ApplyKeysRule ==
    /\ pc = "keys rule"
    /\ \E first \in KeyOrders, second \in KeyOrders :
          out' = <<validate(rule, Model(load_result), parse_result.line_map,
                            first).issues,
                   validate(rule, Model(load_result), parse_result.line_map,
                            second).issues>>
    /\ pc' = "keys applied"
    /\ UNCHANGED <<yaml_text, profile, fail_fast, store, parse_result,
                   load_result, registry, errors, warnings, result, raised, calls,
                   document, rule, path, issue_list, heap, profile_config,
                   indent_size, ErrorCodes>>

NextKeysRule == ApplyKeysRule

SpecKeysRule == InitKeysRule /\ [][NextKeysRule]_vars

\* the top-level keys of the document
PresentKeys == {e.path[1] : e \in {x \in Range(document) : Len(x.path) = 1}}

WithCode(issues, code) == SelectSeq(issues, LAMBDA x : x.code = code)

\* C21: the TopLevelKeysRule built from a ProfileConfig with required keys R
\* and allowed keys A (A standing for R when A is empty) emits a missing-key
\* error without a line for exactly the keys of R that the model lacks, a
\* not-allowed error with the line of the key for exactly the keys of the
\* model outside A, one error per such key and no other issue.
C21_KeyErrorsMatchConfig ==
    pc = "keys applied" =>
        LET R == profile_config.required_top_level_keys
            A == OrDefault(profile_config.allowed_top_level_keys, R)
            missing == WithCode(out[1], PROFILE_MISSING_REQUIRED_KEY)
            extra == WithCode(out[1], PROFILE_INVALID_TOP_LEVEL_KEY)
        IN /\ Len(out[1]) = Len(missing) + Len(extra)
           /\ Len(missing) = Cardinality(R \ PresentKeys)
           /\ {missing[i].message[2] : i \in 1..Len(missing)} = R \ PresentKeys
           /\ \A i \in 1..Len(missing) :
                missing[i].severity = "error" /\ missing[i].line = None
           /\ Len(extra) = Cardinality(PresentKeys \ A)
           /\ {extra[i].path : i \in 1..Len(extra)} = {<<k>> : k \in PresentKeys \ A}
           /\ \A i \in 1..Len(extra) :
                /\ extra[i].severity = "error"
                /\ extra[i].line = Some(LineOf(document, extra[i].path))

\* C30: validation is deterministic: two runs on the same document with the
\* same profile return the same issues in the same order, also when
\* TopLevelKeysRule reports several missing or several not-allowed keys.
C30_SameIssuesInSameOrder ==
    pc = "keys applied" => out[1] = out[2]

\* the group has a fields mapping with no entry
EmptyFields(m, g) ==
    /\ Has(m, <<g, "fields">>)
    /\ KindAt(m, <<g, "fields">>) = "map"
    /\ Kids(m, <<g, "fields">>) = <<>>

\* C22: RequiredFieldsRule(group) emits no issue when the group is absent
\* from the model, and exactly one error when the group is present and has
\* no fields (no fields entry, or a fields mapping with no entry), whatever
\* the number of required fields.
C22_OneErrorForGroupWithoutFields ==
    pc = "applied" =>
        LET g == rule.group_name
            m == Model(load_result)
        IN /\ ~Has(m, <<g>>) => out = <<>>
           /\ (Has(m, <<g>>) /\ (IsNone(m, <<g, "fields">>) \/ EmptyFields(m, g))) =>
                /\ Len(out) = 1
                /\ out[1].severity = "error"
                /\ out[1].code = PROFILE_MISSING_REQUIRED_FIELD

(***************************************************************************)
(* More claims about AutoFixer.fix, checked under SpecFixer.               *)
(***************************************************************************)
FixableCodes ==
    {YAML_TAB_ERROR, YAML_INDENT_ERROR, GROUP_PROMPT_IGNORED_ATTRS,
     FIELD_REQUIRED_IGNORED}

\* C23: AutoFixer.fix is total: for every text and every list of issues,
\* those with a code of FIXABLE_CODES included, it returns a FixResult and
\* raises nothing, every handler an issue of the list selects being a method
\* of AutoFixer.
C23_FixIsTotal ==
    pc = "fixed" =>
        /\ raised = ""
        /\ \A i \in 1..Len(issue_list) :
              issue_list[i].code \in FixableCodes \ {YAML_TAB_ERROR} =>
                  FIXABLE_CODES(issue_list[i].code) \in FixMethods

(***************************************************************************)
(* The indentation fixer (src/src/fixer/auto_fixer.py).  A text is a       *)
(* sequence over "s" (space), "t" (tab), "n" (line feed), "#" and "c" (a   *)
(* character of another kind).                                             *)
(***************************************************************************)
Whitespace == {"s", "t"}

\* line.lstrip(chars)
RECURSIVE lstrip(_, _)
lstrip(line, chars) ==
    IF line # <<>> /\ Head(line) \in chars THEN lstrip(Tail(line), chars) ELSE line

\* ' ' * n
Spaces(n) == [k \in 1..n |-> "s"]

\* the multiple of u above n / u
RoundUp(n, u) == (n + u - 1) \div u

\* round(n / u): to the nearest integer, a tie going to the even one
round(n, u) ==
    LET q == n \div u
        r == n % u
    IN IF 2 * r < u THEN q
       ELSE IF 2 * r > u THEN q + 1
       ELSE IF q % 2 = 0 THEN q ELSE q + 1

\* the body of the loop of _normalize_indentation for line i
NormalizeLine(line, i, indent_size_) ==
    LET keep == [line |-> line, changes |-> <<>>]
        stripped == lstrip(line, {"s"})
        current_indent == Len(line) - Len(stripped)
        new_indent == round(current_indent, indent_size_) * indent_size_
    IN IF lstrip(line, Whitespace) = <<>> THEN keep
       ELSE IF Head(lstrip(line, Whitespace)) = "#" THEN keep
       ELSE IF current_indent = 0 THEN keep
       ELSE IF current_indent % indent_size_ # 0
       THEN [line |-> Spaces(new_indent) \o stripped,
             changes |-> <<Change(<<"Fixed indentation", current_indent, new_indent>>,
                                  i)>>]
       ELSE keep

\* AutoFixer._normalize_indentation(yaml_text, indent_size)
normalize_indentation(text, indent_size_) ==
    LET lines == splitlines(text)
        done == [i \in 1..Len(lines) |-> NormalizeLine(lines[i], i, indent_size_)]
    IN Fixed(JoinLines([i \in 1..Len(lines) |-> done[i].line]),
             Concat([i \in 1..Len(lines) |-> done[i].changes]))

\* AutoFixer.fix_all(yaml_text)
fix_all(text) ==
    LET tabs == fix_all_tabs(text)
        indent == normalize_indentation(tabs.fixed_yaml, 2)
    IN Fixed(indent.fixed_yaml, tabs.changes \o indent.changes)

\* the lines given to the fixer: leading spaces, then nothing, a comment,
\* content, or a tab and content
IndentLines ==
    {Spaces(n) \o r : n \in 0..MaxIndent,
                      r \in {<<>>, <<"#">>, <<"c">>, <<"t", "c">>}}

\* texts of up to two such lines, with or without a final line end
IndentTexts ==
    {<<>>}
    \cup {a \o e : a \in IndentLines, e \in {<<>>, <<"n">>}}
    \cup {a \o <<"n">> \o b \o e :
            a \in IndentLines, b \in IndentLines, e \in {<<>>, <<"n">>}}

InitIndent ==
    /\ pc = "indent"
    /\ yaml_text \in IndentTexts
    /\ indent_size \in 1..MaxUnit
    /\ ErrorCodes = validation_result
    /\ issue_list = <<>>
    /\ document = <<>>
    /\ parse_result = NoParse
    /\ load_result = NoLoad
    /\ rule = NoRule
    /\ registry = None
    /\ profile = ""
    /\ fail_fast = FALSE
    /\ store = {}
    /\ errors = <<>>
    /\ warnings = <<>>
    /\ result = NoResult
    /\ raised = ""
    /\ calls = <<>>
    /\ path = <<>>
    /\ out = <<>>
    /\ heap = Heap
    /\ profile_config = NoConfig

\* fixer._normalize_indentation(yaml_text, indent_size)
NormalizeIndentation ==
    /\ pc = "indent"
    /\ out' = <<normalize_indentation(yaml_text, indent_size)>>
    /\ pc' = "normalized"
    /\ UNCHANGED <<yaml_text, profile, fail_fast, store, parse_result,
                   load_result, registry, errors, warnings, result, raised, calls,
                   document, rule, path, issue_list, heap, profile_config,
                   indent_size, ErrorCodes>>

\* fixer.fix_all(yaml_text)
FixAll ==
    /\ pc = "indent"
    /\ out' = <<fix_all(yaml_text)>>
    /\ pc' = "all fixed"
    /\ UNCHANGED <<yaml_text, profile, fail_fast, store, parse_result,
                   load_result, registry, errors, warnings, result, raised, calls,
                   document, rule, path, issue_list, heap, profile_config,
                   indent_size, ErrorCodes>>

\* fixer._fix_all_tabs(yaml_text)
FixAllTabs ==
    /\ pc = "indent"
    /\ out' = <<fix_all_tabs(yaml_text)>>
    /\ pc' = "tabs replaced"
    /\ UNCHANGED <<yaml_text, profile, fail_fast, store, parse_result,
                   load_result, registry, errors, warnings, result, raised, calls,
                   document, rule, path, issue_list, heap, profile_config,
                   indent_size, ErrorCodes>>

\* fixer.fix(yaml_text, []): no issue to fix
FixNothing ==
    /\ pc = "indent"
    /\ out' = <<fix(yaml_text, issue_list)>>
    /\ pc' = "nothing fixed"
    /\ UNCHANGED <<yaml_text, profile, fail_fast, store, parse_result,
                   load_result, registry, errors, warnings, result, raised, calls,
                   document, rule, path, issue_list, heap, profile_config,
                   indent_size, ErrorCodes>>

NextIndent ==
    \/ NormalizeIndentation
    \/ FixAll
    \/ FixAllTabs
    \/ FixNothing

SpecIndent == InitIndent /\ [][NextIndent]_vars

\* the number of spaces a line starts with
LeadingSpaces(line) ==
    CHOOSE k \in 0..Len(line) :
        /\ \A j \in 1..k : line[j] = "s"
        /\ k < Len(line) => line[k + 1] # "s"

Content(line) == SubSeq(line, LeadingSpaces(line) + 1, Len(line))

\* a line of spaces and tabs only, or a line whose first other character
\* is "#"
BlankOrComment(line) ==
    \/ \A j \in 1..Len(line) : line[j] \in Whitespace
    \/ \E k \in 1..Len(line) :
          line[k] = "#" /\ \A j \in 1..(k - 1) : line[j] \in Whitespace

\* line i of a text the fixer returned; an empty line at the end of the
\* lines shows in the text as the line end of the line before it
OutLine(text, i) ==
    IF i <= Len(splitlines(text)) THEN splitlines(text)[i] ELSE <<>>

ChangesAt(changes, i) == SelectSeq(changes, LAMBDA x : x.line = i)

Distance(a, b) == IF a < b THEN b - a ELSE a - b

C29_NestingPreserved ==
    pc = "normalized" =>
        LET lines == splitlines(yaml_text) IN
        \A i, j \in 1..Len(lines) :
            (/\ ~BlankOrComment(lines[i])
             /\ ~BlankOrComment(lines[j])
             /\ LeadingSpaces(lines[i]) < LeadingSpaces(lines[j])) =>
                LeadingSpaces(OutLine(out[1].fixed_yaml, i))
                    < LeadingSpaces(OutLine(out[1].fixed_yaml, j))

\* the lines of a text with every tab replaced by two spaces
Untabbed(line) == ReplaceTabs(line)

\* C26: the tab fix and the indentation normalization never add, delete or
\* reorder lines: the text returned has as many lines as the text given, and
\* its line i is line i of the text given with only its tabs replaced or
\* its leading spaces changed, so that a line number of the text given
\* designates the same line of the text returned.
C26_FixesKeepTheLines ==
    pc \in {"normalized", "all fixed", "tabs replaced"} =>
        LET lines == splitlines(yaml_text)
            fixed == splitlines(out[1].fixed_yaml)
        IN /\ Len(fixed) = Len(lines)
           /\ \A i \in 1..Len(lines) :
                CASE pc = "tabs replaced" -> fixed[i] = Untabbed(lines[i])
                  [] pc = "normalized" -> Content(fixed[i]) = Content(lines[i])
                  [] pc = "all fixed" ->
                        Content(fixed[i]) = Content(Untabbed(lines[i]))

\* C28: whenever _fix_all_tabs, _normalize_indentation, fix_all or fix with
\* no fixable issue returns an empty change list, the text it returns is the
\* text it was given, character for character, the final line end included.
C28_NoChangeMeansSameText ==
    (/\ pc \in {"normalized", "all fixed", "tabs replaced", "nothing fixed"}
     /\ out[1].changes = <<>>) =>
        out[1].fixed_yaml = yaml_text

\* ---------------------------------------------------------------------------
\* Profile resolution inside one call of validate_yaml_schema (under Spec).
\* The profile store is read by profile_exists (validator.py:60, loader.py:193)
\* and again by load_profile_config, which register_profile calls after the
\* document has been parsed and loaded (validator.py:97-98, loader.py:83-86).

StoreLookups ==
    {i \in 1..Len(calls) : calls[i].op \in {"profile_exists", "load_profile_config"}}

\* C25: in every validation call that names a profile the profile store is
\* consulted exactly once, before any rule executes, and no later step of the
\* call resolves the profile again.
C25_ProfileStoreConsultedOnce ==
    (profile # "" /\ pc # "start") =>
        /\ Cardinality(StoreLookups) = 1
        /\ \A i \in StoreLookups : calls[i].op = "profile_exists"
        /\ raised = "ProfileNotFoundError" => ~Called("parse_yaml")

\* ---------------------------------------------------------------------------
\* The codes of emitted issues.  A module builds its issues from the class
\* ErrorCodes it imports: a constant declared under a "warnings" heading is
\* passed to create_warning (semantic_rules.py:89, 250), every other constant
\* to create_error (semantic_rules.py:48-210, statement_only.py:67-186).

WarningSections == {"core warnings", "profile warnings"}

IssueOf(c) ==
    IF c.section \in WarningSections
    THEN create_warning(c.code, <<>>, <<>>, None, <<>>)
    ELSE create_error(c.code, <<>>, <<>>, None, <<>>)

InitCodes ==
    /\ pc = "codes"
    /\ ErrorCodes \in {validation_result, core_models}
    /\ issue_list = <<>>
    /\ yaml_text = <<>>
    /\ indent_size = 2
    /\ document = <<>>
    /\ parse_result = NoParse
    /\ load_result = NoLoad
    /\ rule = NoRule
    /\ registry = None
    /\ profile = ""
    /\ fail_fast = FALSE
    /\ store = {}
    /\ errors = <<>>
    /\ warnings = <<>>
    /\ result = NoResult
    /\ raised = ""
    /\ calls = <<>>
    /\ path = <<>>
    /\ out = <<>>
    /\ heap = Heap
    /\ profile_config = NoConfig

\* a rule appends one issue built from a constant of the imported class
EmitIssue ==
    /\ pc = "codes"
    /\ Len(issue_list) < MaxEmitted
    /\ \E c \in ErrorCodes : issue_list' = Append(issue_list, IssueOf(c))
    /\ UNCHANGED <<pc, yaml_text, profile, fail_fast, store, parse_result,
                   load_result, registry, errors, warnings, result, raised, calls,
                   document, rule, path, out, heap, profile_config,
                   indent_size, ErrorCodes>>

NextCodes == EmitIssue

SpecCodes == InitCodes /\ [][NextCodes]_vars

\* the code numbers of one section of the imported class
NumbersOf(section) == {code_num(c.code) : c \in {d \in ErrorCodes : d.section = section}}

\* two sets of numbers lie in disjoint ranges: one ends before the other begins
Apart(a, b) == (\A x \in a : \A y \in b : x < y) \/ (\A x \in a : \A y \in b : y < x)

\* C27: the codes of different phases lie in pairwise disjoint numeric ranges
\* (parse, load, core-rule errors, core-rule warnings, profile-rule errors,
\* profile-rule warnings), and every emitted issue has the severity implied
\* by the range of its code: warning exactly for a code in a warning range.
C27_CodeRangesDisjointAndImplySeverity ==
    pc = "codes" =>
        /\ \A a, b \in Sections : a # b => Apart(NumbersOf(a), NumbersOf(b))
        /\ \A i \in 1..Len(issue_list) :
               issue_list[i].severity = SeverityOfRange(code_num(issue_list[i].code))

====
